---- MODULE Spec2Model ----
(***************************************************************************)
(* Smart-Footwear core pipeline: the rate-limited caching telemetry        *)
(* fetcher (services/ThingSpeakService.ts), the alert orchestrator         *)
(* (services/AlertManager.ts), the cooldown-gated notification service     *)
(* (services/NotificationService.ts) and the dashboard polling driver      *)
(* (app/(tabs)/index.tsx, getData).                                        *)
(*                                                                         *)
(* Time is the value of Date.now() in milliseconds.  Asynchronous          *)
(* functions are cut at their await points: one action is one synchronous  *)
(* run of JavaScript between two suspensions.                              *)
(***************************************************************************)
EXTENDS Integers, Sequences, FiniteSets, TLC

(***************************************************************************)
(* JavaScript numbers.  A number is a record so that NaN, Infinity and     *)
(* undefined can be told apart from the integers and compared as the       *)
(* language compares them (every comparison with NaN is false).            *)
(***************************************************************************)
Num(v) == [k |-> "num", v |-> v]
NaN == [k |-> "nan", v |-> 0]
Infinity == [k |-> "inf", v |-> 0]
Undefined == [k |-> "undef", v |-> 0]

Lt(a, b) ==
    CASE a.k = "num" /\ b.k = "num" -> a.v < b.v
      [] a.k = "num" /\ b.k = "inf" -> TRUE
      [] OTHER -> FALSE

Le(a, b) ==
    CASE a.k = "num" /\ b.k = "num" -> a.v <= b.v
      [] a.k = "num" /\ b.k = "inf" -> TRUE
      [] a.k = "inf" /\ b.k = "inf" -> TRUE
      [] OTHER -> FALSE

Ge(a, b) == Le(b, a)

\* a !== 0
NotZero(a) == ~(a.k = "num" /\ a.v = 0)

Abs(i) == IF i < 0 THEN 0 - i ELSE i

(***************************************************************************)
(* Bounds of the model.                                                    *)
(***************************************************************************)
\* Date.now() when the model starts: far from the epoch, as on any device.
StartTime == 100000

Threads == {"t1", "t2"}

AlertIds == {"danger_zone", "temperature", "data_stale"}
Levels == {"critical", "warning", "info"}

(***************************************************************************)
(* AlertManager.conditions and NotificationService.config.  Temperatures   *)
(* are in hundredths of a degree Celsius (34.9 is 3490).                   *)
(***************************************************************************)
TempNormalMin == 3500
TempNormalMax == 3750
TempWarningMin == 3760
TempWarningMax == 3850
TempCriticalMin == 3860
TempLowMax == 3490
dataStaleThreshold == 300000
DzCritical == 50
DzWarning == 100
DzInfo == 200
criticalAlertCooldown == 5000
warningAlertCooldown == 10000

(***************************************************************************)
(* ThingSpeakService.                                                      *)
(***************************************************************************)
MIN_API_INTERVAL == 3000
CACHE_DURATION == 30000
\* the longest a caller waits for the call in progress
CoalesceWait == 5000
\* axios timeout
RequestTimeout == 10000

(***************************************************************************)
(* Geometry.  Coordinates are measured in metres along one meridian        *)
(* (latitude v stands for v * 180 / (pi * R) degrees), where the haversine *)
(* distance of two points of equal longitude is exactly |lat1 - lat2|.     *)
(* The operator is undefined for two numeric points of different           *)
(* longitude: the model never asks for such a distance.                    *)
(***************************************************************************)
calculateDistance(lat1, lon1, lat2, lon2) ==
    CASE lat1.k # "num" \/ lon1.k # "num" \/ lat2.k # "num" \/ lon2.k # "num" -> NaN
      [] lat1.k = "num" /\ lon1.k = "num" /\ lat2.k = "num" /\ lon2.k = "num"
         /\ lon1.v = lon2.v -> Num(Abs(lat2.v - lat1.v))

getTemperatureStatus(temperature) ==
    IF temperature.k = "undef" THEN [status |-> "unknown", level |-> "none"]
    ELSE IF Lt(temperature, Num(TempLowMax)) THEN [status |-> "low", level |-> "info"]
    ELSE IF Ge(temperature, Num(TempCriticalMin))
         THEN [status |-> "critical", level |-> "critical"]
    ELSE IF Ge(temperature, Num(TempWarningMin)) /\ Le(temperature, Num(TempWarningMax))
         THEN [status |-> "warning", level |-> "warning"]
    ELSE IF Ge(temperature, Num(TempNormalMin)) /\ Le(temperature, Num(TempNormalMax))
         THEN [status |-> "normal", level |-> "none"]
    ELSE [status |-> "unknown", level |-> "none"]

getPressureStatus(pressure) == [status |-> "normal", level |-> "none"]

(***************************************************************************)
(* Zone names and the status string.  A status is its fixed text (kind)    *)
(* and the zone name rendered into it; String.includes looks at both.      *)
(* RawWords(n) are the keywords the name holds as written, UpperWords(n)   *)
(* the keywords its upper-cased form holds.                                *)
(***************************************************************************)
ZoneNames == {"", "Quarry", "critical ward", "INSIDE TRACK", "APPROACHING LANE"}

RawWords(n) ==
    CASE n = "INSIDE TRACK" -> {"INSIDE"}
      [] n = "APPROACHING LANE" -> {"APPROACHING"}
      [] OTHER -> {}

UpperWords(n) ==
    CASE n = "critical ward" -> {"CRITICAL"}
      [] OTHER -> RawWords(n)

\* zone.name || `Zone ${zone.id}`
zoneName(zone) == IF zone.name = "" THEN "Zone" ELSE zone.name

KindWords(kind) ==
    CASE kind = "INSIDE" -> {"INSIDE"}
      [] kind = "CRITICAL PROXIMITY" -> {"CRITICAL"}
      [] kind = "APPROACHING" -> {"APPROACHING"}
      [] OTHER -> {}

\* status.includes(word)
includes(status, word) ==
    \/ word \in KindWords(status.kind)
    \/ word \in (IF status.upper THEN UpperWords(status.name) ELSE RawWords(status.name))

SafeStatus == [kind |-> "Safe", name |-> "", upper |-> FALSE, zone |-> 0]

zoneStatus(kind, zone, upper) ==
    [kind |-> kind, name |-> zoneName(zone), upper |-> upper, zone |-> zone.id]

\* the mutant: the closest zone not tracked
trackClosestNever(a, zone, distance) == a

\* lines 116-119: the closest zone so far
trackClosest(a, zone, distance) ==
    IF Lt(distance, a.closestDistance)
    THEN [a EXCEPT !.closestDistance = distance, !.closestZone = zone.id]
    ELSE a

\* the mutant: the boundary of the zone left outside
isInsideStrict(distance, zone) == Lt(distance, Num(zone.radius))

\* line 122: distance <= zone.radius
isInside(distance, zone) == Le(distance, Num(zone.radius))

\* the mutant: the outer boundary of a band left outside
withinBandStrict(distance, zone, margin) == Lt(distance, Num(zone.radius + margin))

\* lines 129, 136, 143: distance <= zone.radius + margin
withinBand(distance, zone, margin) == Le(distance, Num(zone.radius + margin))

\* lines 121-149: the bands of one zone, at the distance of the point from it
classifyZone(a, zone, distance) ==
    IF isInside(distance, zone)
    THEN [a EXCEPT !.status = zoneStatus("INSIDE", zone, TRUE), !.level = "critical",
                   !.brk = TRUE]
    ELSE IF withinBand(distance, zone, DzCritical)
    THEN IF ~includes(a.status, "INSIDE")
         THEN [a EXCEPT !.status = zoneStatus("CRITICAL PROXIMITY", zone, FALSE),
                        !.level = "critical"]
         ELSE a
    ELSE IF withinBand(distance, zone, DzWarning)
    THEN IF ~includes(a.status, "INSIDE") /\ ~includes(a.status, "CRITICAL")
         THEN [a EXCEPT !.status = zoneStatus("APPROACHING", zone, TRUE),
                        !.level = "warning"]
         ELSE a
    ELSE IF withinBand(distance, zone, DzInfo)
    THEN IF ~includes(a.status, "INSIDE") /\ ~includes(a.status, "CRITICAL")
            /\ ~includes(a.status, "APPROACHING")
         THEN [a EXCEPT !.status = zoneStatus("NEAR", zone, FALSE), !.level = "info"]
         ELSE a
    ELSE a

\* One iteration of the loop of checkDangerZones over zone, from accumulator a.
checkZone(a, zone, distance) == classifyZone(trackClosest(a, zone, distance), zone, distance)

RECURSIVE scanZones(_, _, _, _, _)
scanZones(a, latitude, longitude, zones, i) ==
    IF i > Len(zones) \/ a.brk THEN a
    ELSE scanZones(checkZone(a, zones[i],
                             calculateDistance(latitude, longitude, zones[i].latitude,
                                               zones[i].longitude)),
                   latitude, longitude, zones, i + 1)

\* a null element of a zone list read from storage
NullZone == [k |-> "null"]

\* Whether the loop reads a field of a null zone (a TypeError) before it ends.
RECURSIVE scanThrows(_, _, _, _, _)
scanThrows(a, latitude, longitude, zones, i) ==
    IF i > Len(zones) \/ a.brk THEN FALSE
    ELSE IF zones[i] = NullZone THEN TRUE
    ELSE scanThrows(checkZone(a, zones[i],
                              calculateDistance(latitude, longitude, zones[i].latitude,
                                                zones[i].longitude)),
                    latitude, longitude, zones, i + 1)

checkDangerZonesThrows(latitude, longitude, zones) ==
    scanThrows([closestZone |-> 0, closestDistance |-> Infinity,
                level |-> "none", status |-> SafeStatus, brk |-> FALSE],
               latitude, longitude, zones, 1)

\* lines 152-157
scanResult(a) ==
    [status |-> IF a.status = SafeStatus /\ a.closestZone # 0
                THEN [kind |-> "Safe (closest)", name |-> "", upper |-> FALSE,
                      zone |-> a.closestZone]
                ELSE a.status,
     distance |-> a.closestDistance, level |-> a.level, closestZone |-> a.closestZone]

\* the mutant: the scan run on the empty list too
checkDangerZonesAlwaysScan(latitude, longitude, zones) ==
    scanResult(scanZones([closestZone |-> 0, closestDistance |-> Infinity,
                          level |-> "none", status |-> SafeStatus, brk |-> FALSE],
                         latitude, longitude, zones, 1))

checkDangerZones(latitude, longitude, zones) ==
    IF Len(zones) = 0
    THEN [status |-> [kind |-> "Safe (No Danger Zones)", name |-> "", upper |-> FALSE,
                      zone |-> 0],
          distance |-> Num(0), level |-> "none", closestZone |-> 0]
    ELSE scanResult(scanZones([closestZone |-> 0, closestDistance |-> Infinity,
                               level |-> "none", status |-> SafeStatus, brk |-> FALSE],
                              latitude, longitude, zones, 1))

(***************************************************************************)
(* Values.                                                                 *)
(***************************************************************************)
\* gpsData === null, deviceLocation === null
NullSample == [k |-> "null"]
NullLoc == [k |-> "null"]
\* Map.get(id) === undefined
Absent == [level |-> "none"]
NoAlerts == [id \in AlertIds |-> Absent]

\* The longitude of the meridian, in metres from the prime meridian.
Meridian == Num(7000)

Zone(id, lat, radius, name) ==
    [id |-> id, latitude |-> Num(lat), longitude |-> Meridian, radius |-> radius,
     name |-> name]

Point(lat) == [latitude |-> Num(lat), longitude |-> Meridian]

\* parseGpsData; the feed of these samples has no field6
Sample(lat, lon, temperature, createdAt) ==
    [createdAt |-> createdAt, latitude |-> lat, longitude |-> lon,
     temperature |-> temperature, pressure |-> Undefined]

\* the sample with field6 of the feed parsed to p
withPressure(sample, p) == [sample EXCEPT !.pressure = p]

(***************************************************************************)
(* State.                                                                  *)
(***************************************************************************)
VARIABLES
    clock,                \* Date.now()
    lastApiCall,          \* ThingSpeakService: module variables
    cachedData,
    isApiCallInProgress,
    lastAlertTimes,       \* NotificationService.lastAlertTimes (0: no entry)
    activeAlerts,         \* AlertManager.activeAlerts
    previousAlerts,       \* AlertManager.previousAlerts
    isFetchingData,       \* DashboardScreen: refs and state
    dangerZones,
    deviceLocation,
    pc,                   \* where each asynchronous call stands
    loc,                  \* its local variables
    hTick,                \* observation: the last two completed ticks
    hAttempts,            \* observation: triggerAlert calls of the run of processAlerts just made
    hLastDisp,            \* observation: per id, the level and time of the last notification dispatched
    hNet,                 \* observation: when the last two network calls started; the last
                          \* successful fetch not followed by clearThingSpeakCache
    hCleared,             \* observation: clearThingSpeakCache was called, fetchGpsData not since
    config,               \* NotificationService.config, the three channel switches
    timers,               \* haptic pulses scheduled with setTimeout and not yet fired
    mounted,              \* DashboardScreen is mounted
    screenAlerts,         \* DashboardScreen: the state activeAlerts
    dataFetchInterval,    \* DashboardScreen: the ref dataFetchInterval (0: null)
    armed,                \* the intervals set and not cleared, with their periods
    nextHandle            \* the handle the next setInterval returns

serviceVars == <<lastApiCall, cachedData, isApiCallInProgress>>
alertVars == <<lastAlertTimes, activeAlerts, previousAlerts>>
screenVars == <<isFetchingData, dangerZones, deviceLocation>>
alertObs == <<hTick, hAttempts, hLastDisp>>
notifyVars == <<config, timers>>
intervalVars == <<mounted, screenAlerts, dataFetchInterval, armed, nextHandle>>
vars == <<clock, lastApiCall, cachedData, isApiCallInProgress, lastAlertTimes,
          activeAlerts, previousAlerts, isFetchingData, dangerZones, deviceLocation,
          pc, loc, hTick, hAttempts, hLastDisp, hNet, hCleared, config, timers,
          mounted, screenAlerts, dataFetchInterval, armed, nextHandle>>

IdleLoc ==
    [mode |-> "none", force |-> FALSE, now |-> 0, wake |-> 0, netStart |-> 0,
     fetched |-> NullSample, outcome |-> "none",
     busyAtEntry |-> FALSE, flagAtEntry |-> FALSE, netCalled |-> FALSE,
     netFailed |-> FALSE, cacheAtFail |-> NullSample,
     hitDue |-> FALSE, hitSample |-> NullSample,
     gps |-> NullSample, zones |-> <<>>, devLoc |-> NullLoc, tnow |-> 0,
     newAlerts |-> <<>>, trig |-> {}, evaluated |-> FALSE, returned |-> FALSE,
     threw |-> FALSE, afterClear |-> FALSE, preClear |-> FALSE, servedPre |-> FALSE]

Init ==
    /\ clock = StartTime
    /\ lastApiCall = 0
    /\ cachedData = NullSample
    /\ isApiCallInProgress = FALSE
    /\ lastAlertTimes = [id \in AlertIds |-> 0]
    /\ activeAlerts = NoAlerts
    /\ previousAlerts = NoAlerts
    /\ isFetchingData = FALSE
    /\ dangerZones = <<>>
    /\ deviceLocation = NullLoc
    /\ pc = [t \in Threads |-> "idle"]
    /\ loc = [t \in Threads |-> IdleLoc]
    /\ hTick = [n |-> 0, prev |-> [id \in AlertIds |-> "none"],
                alerts |-> [id \in AlertIds |-> "none"], trig |-> {},
                input |-> [gps |-> NullSample, devLoc |-> NullLoc, tnow |-> 0],
                list |-> <<>>, same |-> FALSE, sameList |-> FALSE]
    /\ hAttempts = <<>>
    /\ hLastDisp = [id \in AlertIds |-> [level |-> "none", time |-> 0]]
    /\ hNet = [prev |-> 0, last |-> 0, okAt |-> 0, okSample |-> NullSample, okPre |-> FALSE]
    /\ hCleared = FALSE
    /\ config = [enableHaptics |-> TRUE, enableAudio |-> TRUE, enableVisual |-> TRUE]
    /\ timers = 0
    /\ mounted = FALSE
    /\ screenAlerts = <<>>
    /\ dataFetchInterval = 0
    /\ armed = {}
    /\ nextHandle = 1

(***************************************************************************)
(* NotificationService.                                                    *)
(***************************************************************************)
cooldown(level) ==
    IF level = "critical" THEN criticalAlertCooldown ELSE warningAlertCooldown

\* the mutant: the cooldown window closed at its end
shouldTriggerAlertLate(times, now, alertId, level) ==
    IF now - times[alertId] <= cooldown(level)
    THEN [ok |-> FALSE, times |-> times]
    ELSE [ok |-> TRUE, times |-> [times EXCEPT ![alertId] = now]]

\* Returns whether the alert may fire and the new lastAlertTimes.
shouldTriggerAlert(times, now, alertId, level) ==
    IF now - times[alertId] < cooldown(level)
    THEN [ok |-> FALSE, times |-> times]
    ELSE [ok |-> TRUE, times |-> [times EXCEPT ![alertId] = now]]

(***************************************************************************)
(* AlertManager.processAlerts.  The function suspends only inside          *)
(* triggerAlert, and there only when the notification is dispatched (the   *)
(* haptic and audio calls are awaited); m is the state it works on:        *)
(* [active, previous, times, newAlerts, trig, attempts, disp, evaluated].  *)
(***************************************************************************)
resolveLocation(gpsData, devLoc) ==
    IF gpsData # NullSample /\ NotZero(gpsData.latitude) /\ NotZero(gpsData.longitude)
    THEN [latitude |-> gpsData.latitude, longitude |-> gpsData.longitude]
    ELSE IF devLoc # NullLoc THEN devLoc
    ELSE NullLoc

\* lines 188-196
dangerZoneResultAlert(r, now) ==
    IF r.level # "none"
    THEN [id |-> "danger_zone", type |-> "danger_zone", level |-> r.level,
          message |-> r.status, timestamp |-> now, distance |-> r.distance]
    ELSE Absent

\* lines 181-187
dangerZoneAlertAt(currentLocation, zones, now) ==
    IF currentLocation = NullLoc THEN Absent
    ELSE dangerZoneResultAlert(checkDangerZones(currentLocation.latitude,
                                                currentLocation.longitude, zones), now)

dangerZoneAlert(gpsData, zones, devLoc, now) ==
    dangerZoneAlertAt(resolveLocation(gpsData, devLoc), zones, now)

\* lines 212-222
temperatureResultAlert(r, temperature, now) ==
    IF r.level # "none"
    THEN [id |-> "temperature", type |-> "temperature", level |-> r.level,
          timestamp |-> now, value |-> temperature]
    ELSE Absent

\* the mutant: a pressure under the normal range of the configuration raises
\* an alert in the place of the temperature alert
temperatureOrPressureAlert(gpsData, now) ==
    IF gpsData # NullSample /\ gpsData.pressure.k = "num" /\ gpsData.pressure.v < 800
    THEN [id |-> "temperature", type |-> "pressure", level |-> "critical",
          timestamp |-> now, value |-> gpsData.pressure]
    ELSE IF gpsData # NullSample /\ gpsData.temperature.k # "undef"
    THEN temperatureResultAlert(getTemperatureStatus(gpsData.temperature),
                                gpsData.temperature, now)
    ELSE Absent

\* lines 210-211
temperatureAlert(gpsData, now) ==
    IF gpsData # NullSample /\ gpsData.temperature.k # "undef"
    THEN temperatureResultAlert(getTemperatureStatus(gpsData.temperature),
                                gpsData.temperature, now)
    ELSE Absent

\* the mutant: stale from the threshold on
dataStaleAlertAtThreshold(gpsData, now) ==
    IF gpsData # NullSample /\ gpsData.createdAt.k = "num"
       /\ now - gpsData.createdAt.v >= dataStaleThreshold
    THEN [id |-> "data_stale", type |-> "data_stale", level |-> "warning",
          timestamp |-> now]
    ELSE Absent

\* lines 242-249
dataStaleAlert(gpsData, now) ==
    IF gpsData # NullSample /\ gpsData.createdAt.k = "num"
       /\ now - gpsData.createdAt.v > dataStaleThreshold
    THEN [id |-> "data_stale", type |-> "data_stale", level |-> "warning",
          timestamp |-> now]
    ELSE Absent

\* the mutant: a notification on every tick while the condition lasts
levelChangedAlways(previousAlert, alert) == TRUE

\* !previousAlert || previousAlert.level !== alert.level
levelChanged(previousAlert, alert) ==
    previousAlert = Absent \/ previousAlert.level # alert.level

\* the mutant: the stale-data notification repeated on every tick
isNewAlertAlways(previousAlert, alert) == TRUE

\* !previousAlert
isNewAlert(previousAlert, alert) == previousAlert = Absent

sectionAlert(k, env) ==
    CASE k = 1 -> dangerZoneAlert(env.gps, env.zones, env.devLoc, env.tnow)
      [] k = 2 -> temperatureAlert(env.gps, env.tnow)
      [] k = 3 -> dataStaleAlert(env.gps, env.tnow)

sectionTrigger(k, previousAlert, alert) ==
    IF k = 3 THEN isNewAlert(previousAlert, alert) ELSE levelChanged(previousAlert, alert)

\* await notificationService.triggerAlert(alert), r the answer of shouldTriggerAlert
triggered(m, alert, now, r) ==
    [m EXCEPT !.times = r.times,
              !.trig = @ \cup {alert.id},
              !.attempts = Append(@, [id |-> alert.id, level |-> alert.level,
                                      now |-> now, dispatched |-> r.ok]),
              !.susp = r.ok]

\* the mutant: the alert added to the list a second time
pushedTwice(m, alert) ==
    [m EXCEPT !.newAlerts = Append(Append(@, alert), alert),
              !.active = [@ EXCEPT ![alert.id] = alert],
              !.susp = FALSE]

\* newAlerts.push(alert); this.activeAlerts.set(alert.id, alert)
pushed(m, alert) ==
    [m EXCEPT !.newAlerts = Append(@, alert),
              !.active = [@ EXCEPT ![alert.id] = alert],
              !.susp = FALSE]

sectionWith(k, m, alert, now) ==
    IF alert = Absent THEN [m EXCEPT !.susp = FALSE]
    ELSE IF sectionTrigger(k, m.previous[alert.id], alert)
         THEN triggered(pushed(m, alert), alert, now,
                        shouldTriggerAlert(m.times, now, alert.id, alert.level))
         ELSE pushed(m, alert)

\* Section k of processAlerts run on m at time now; m.susp tells whether the
\* section ends suspended in a dispatched triggerAlert.
section(k, m, env, now) == sectionWith(k, m, sectionAlert(k, env), now)

\* Sections k..3, up to the first suspension: the section to resume at (4: the
\* function has returned) and the state reached.
RECURSIVE runSections(_, _, _, _)
RECURSIVE continueSections(_, _, _, _)
continueSections(k, m1, env, now) ==
    IF m1.susp THEN [k |-> k + 1, m |-> m1]
    ELSE runSections(k + 1, m1, env, now)

runSections(k, m, env, now) ==
    IF k > 3 THEN [k |-> 4, m |-> m]
    ELSE continueSections(k, section(k, m, env, now), env, now)

\* the mutant: the list returned in the order of the sections
sortAlertsNot(alerts) == alerts

\* newAlerts.sort by level, critical first; Array.prototype.sort is stable
sortAlerts(alerts) ==
    SelectSeq(alerts, LAMBDA a : a.level = "critical")
    \o SelectSeq(alerts, LAMBDA a : a.level = "warning")
    \o SelectSeq(alerts, LAMBDA a : a.level = "info")


\* alerts.some(alert => alert.id === id)
hasAlert(alerts, id) == \E i \in 1..Len(alerts) : alerts[i].id = id

\* alerts.find(alert => alert.id === id)
alertOf(alerts, id) ==
    IF \E i \in 1..Len(alerts) : alerts[i].id = id
    THEN CHOOSE a \in {alerts[i] : i \in 1..Len(alerts)} : a.id = id
    ELSE Absent

levelsOf(alerts) ==
    [id \in AlertIds |->
        IF \E i \in 1..Len(alerts) : alerts[i].id = id
        THEN (CHOOSE a \in {alerts[i] : i \in 1..Len(alerts)} : a.id = id).level
        ELSE "none"]

paLabel(k) ==
    CASE k = 2 -> "pa2"
      [] k = 3 -> "pa3"
      [] k = 4 -> "pa4"

paSection(label) ==
    CASE label = "pa2" -> 2
      [] label = "pa3" -> 3
      [] label = "pa4" -> 4

\* What a call keeps for the observer once it has returned.
finishedLoc(l, alerts) ==
    IF l.mode = "tick" THEN IdleLoc
    ELSE [IdleLoc EXCEPT !.mode = l.mode, !.outcome = l.outcome, !.gps = l.gps,
                         !.devLoc = l.devLoc, !.evaluated = l.evaluated,
                         !.newAlerts = alerts, !.returned = TRUE]

\* What the observer of the alert specification notes of a run: the attempts
\* with the last dispatch before each, the last dispatches, the finished tick.
attemptsSeen(attempts) ==
    [i \in 1..Len(attempts) |->
        [id |-> attempts[i].id, level |-> attempts[i].level,
         now |-> attempts[i].now, dispatched |-> attempts[i].dispatched,
         last |-> hLastDisp[attempts[i].id]]]

dispatchesSeen(attempts) ==
    [id \in AlertIds |->
        IF \E i \in 1..Len(attempts) : attempts[i].id = id /\ attempts[i].dispatched
        THEN [level |-> levelsOf(attempts)[id], time |-> clock]
        ELSE hLastDisp[id]]

tickInput(l) == [gps |-> l.gps, devLoc |-> l.devLoc, tnow |-> l.tnow]

\* same: the tick had the inputs of the tick before it, with no time passed
\* since that one began; sameList: it returned the list that one returned
tickSeen(l, m) ==
    [n |-> IF hTick.n < 2 THEN hTick.n + 1 ELSE 2,
     prev |-> hTick.alerts,
     alerts |-> levelsOf(m.newAlerts),
     trig |-> m.trig,
     input |-> tickInput(l),
     list |-> sortAlerts(m.newAlerts),
     same |-> hTick.n > 0 /\ tickInput(l) = hTick.input /\ clock = hTick.input.tnow,
     sameList |-> hTick.n > 0 /\ sortAlerts(m.newAlerts) = hTick.list]

\* Thread t, with locals l, has run processAlerts up to r: the function is
\* suspended in a dispatched notification, at section r.k, or has returned
\* and getData's finally block follows.
StoreRun(t, prev, l, r) ==
    /\ activeAlerts' = r.m.active
    /\ previousAlerts' = prev
    /\ lastAlertTimes' = r.m.times
    /\ hAttempts' = IF l.mode = "tick" THEN attemptsSeen(r.m.attempts) ELSE hAttempts
    /\ hLastDisp' = IF l.mode = "tick" THEN dispatchesSeen(r.m.attempts) ELSE hLastDisp
    /\ IF r.k = 4 /\ ~r.m.susp
       THEN /\ hTick' = IF l.mode = "tick" THEN tickSeen(l, r.m) ELSE hTick
            /\ pc' = [pc EXCEPT ![t] = "idle"]
            /\ loc' = [loc EXCEPT ![t] = finishedLoc(l, sortAlerts(r.m.newAlerts))]
            /\ isFetchingData' = IF l.mode = "getData" THEN FALSE ELSE isFetchingData
       ELSE /\ hTick' = hTick
            /\ pc' = [pc EXCEPT ![t] = paLabel(r.k)]
            /\ loc' = [loc EXCEPT ![t] = [l EXCEPT !.newAlerts = r.m.newAlerts,
                                                   !.trig = r.m.trig]]
            /\ isFetchingData' = isFetchingData

\* Thread t runs processAlerts from section k, on the maps act and prev, until
\* the function suspends or returns.
RunProcessAlerts(t, k, act, prev, l) ==
    StoreRun(t, prev, l,
             runSections(k, [active |-> act, previous |-> prev, times |-> lastAlertTimes,
                             newAlerts |-> l.newAlerts, trig |-> l.trig,
                             attempts |-> <<>>, susp |-> FALSE],
                         [gps |-> l.gps, zones |-> l.zones, devLoc |-> l.devLoc,
                          tnow |-> l.tnow],
                         clock))

\* lines 172-186: checkDangerZones is called, and throws
locationThrows(currentLocation, zones) ==
    currentLocation # NullLoc
    /\ checkDangerZonesThrows(currentLocation.latitude, currentLocation.longitude, zones)

processAlertsThrows(gpsData, zones, devLoc) ==
    locationThrows(resolveLocation(gpsData, devLoc), zones)

\* lines 165-186, and 432-438 of getData: the maps are swapped and cleared,
\* checkDangerZones throws, nothing catches it before the caller
ThrowProcessAlerts(t, l, gpsData, devLoc) ==
    /\ activeAlerts' = NoAlerts
    /\ previousAlerts' = activeAlerts
    /\ pc' = [pc EXCEPT ![t] = "idle"]
    /\ loc' = [loc EXCEPT ![t] =
            [IdleLoc EXCEPT !.mode = l.mode, !.outcome = l.outcome, !.gps = gpsData,
                            !.devLoc = devLoc, !.evaluated = TRUE, !.threw = TRUE]]
    /\ isFetchingData' = IF l.mode = "getData" THEN FALSE ELSE isFetchingData
    /\ UNCHANGED <<lastAlertTimes, alertObs>>

\* lines 165-170 and on, when nothing throws
StartProcessAlerts(t, l, gpsData, zones, devLoc) ==
    RunProcessAlerts(t, 1, NoAlerts, activeAlerts,
                     [l EXCEPT !.gps = gpsData, !.zones = zones, !.devLoc = devLoc,
                               !.tnow = clock, !.newAlerts = <<>>, !.trig = {},
                               !.evaluated = resolveLocation(gpsData, devLoc) # NullLoc])

\* processAlerts(gpsData, dangerZones, deviceLocation)
BeginProcessAlerts(t, l, gpsData, zones, devLoc) ==
    IF processAlertsThrows(gpsData, zones, devLoc)
    THEN ThrowProcessAlerts(t, l, gpsData, devLoc)
    ELSE StartProcessAlerts(t, l, gpsData, zones, devLoc)

\* The awaited triggerAlert has completed: processAlerts goes on.
ResumeProcessAlerts(t) ==
    /\ pc[t] \in {"pa2", "pa3", "pa4"}
    /\ RunProcessAlerts(t, paSection(pc[t]), activeAlerts, previousAlerts, loc[t])
    /\ UNCHANGED <<clock, serviceVars, dangerZones, deviceLocation, hNet>>
    /\ UNCHANGED <<hCleared, notifyVars, intervalVars>>

(***************************************************************************)
(* The alert specification: processAlerts called tick after tick, one at a *)
(* time, on any sample, with time passing in between.                      *)
(***************************************************************************)
TickZones == <<Zone(1, 1000, 100, "Quarry")>>
TickDeviceLocations == {NullLoc, Point(1130)}
\* The instants, counted from StartTime, at which the clock is looked at.
AlertInstants == {0, 2500, 5000, 10000}

Fresh == Num(clock)
\* a sample that is 5 s short of stale when the model starts
Stale == Num(StartTime - dataStaleThreshold + 5000)

\* inside the zone; approaching it, warm; approaching it, hot, stale; near it;
\* the 0,0 sentinel, stale; no coordinates in the feed (parseFloat gives NaN);
\* near it, with a pressure of 700 hPa
TickSamples ==
    { NullSample,
      Sample(Num(1050), Meridian, Undefined, Fresh),
      Sample(Num(1180), Meridian, Num(3800), Fresh),
      Sample(Num(1180), Meridian, Num(3900), Stale),
      Sample(Num(1280), Meridian, Num(3650), Fresh),
      Sample(Num(0), Num(0), Undefined, Stale),
      Sample(NaN, NaN, Undefined, Fresh),
      withPressure(Sample(Num(1280), Meridian, Num(3650), Fresh), Num(700)) }

Tick(gpsData, devLoc) ==
    /\ \A t \in Threads : pc[t] = "idle"
    /\ BeginProcessAlerts("t1", [IdleLoc EXCEPT !.mode = "tick"], gpsData, TickZones, devLoc)
    /\ UNCHANGED <<clock, serviceVars, dangerZones, deviceLocation, hNet>>
    /\ UNCHANGED <<hCleared, notifyVars, intervalVars>>

\* Time passes, up to one of the instants.
Advance(instants) ==
    /\ \E i \in instants : StartTime + i > clock /\ clock' = StartTime + i
    /\ hAttempts' = <<>>
    /\ UNCHANGED <<serviceVars, alertVars, screenVars, pc, loc, hTick, hLastDisp, hNet>>
    /\ UNCHANGED <<hCleared, notifyVars, intervalVars>>

NextAlerts ==
    \/ \E g \in TickSamples, dl \in TickDeviceLocations : Tick(g, dl)
    \/ ResumeProcessAlerts("t1")
    \/ Advance(AlertInstants)

SpecAlerts == Init /\ [][NextAlerts]_vars


(***************************************************************************)
(* ThingSpeakService.fetchGpsData.  A call stands at "coalesce" (the loop   *)
(* of lines 32-34), at "spacing" (the timer of line 43) or at "net" (the    *)
(* request of line 50); l holds its locals.                                 *)
(***************************************************************************)
\* What is left of a call once it is over: its result and, for the observer
\* of the fetcher specification, what was noted on its way.
returnedLoc(l, outcome, value) ==
    IF l.mode = "getData"
    THEN [IdleLoc EXCEPT !.mode = l.mode, !.force = l.force, !.zones = l.zones,
                         !.devLoc = l.devLoc, !.outcome = outcome, !.fetched = value]
    ELSE [l EXCEPT !.outcome = outcome, !.fetched = value]

\* return or throw to the caller
Return(t, l, outcome, value) ==
    /\ pc' = [pc EXCEPT ![t] = IF l.mode = "getData" THEN "fetched" ELSE "idle"]
    /\ loc' = [loc EXCEPT ![t] = returnedLoc(l, outcome, value)]

\* lines 46-50: isApiCallInProgress = true; axios.get(BASE_URL)
StartNetwork(t, l) ==
    /\ isApiCallInProgress' = TRUE
    /\ pc' = [pc EXCEPT ![t] = "net"]
    /\ loc' = [loc EXCEPT ![t] = [l EXCEPT !.netCalled = TRUE, !.netStart = clock]]
    /\ hNet' = [hNet EXCEPT !.prev = hNet.last, !.last = clock]

\* the mutant: the wait lengthened by the time since the last call
ToNetworkLong(t, l) ==
    IF l.now - lastApiCall < MIN_API_INTERVAL
    THEN /\ pc' = [pc EXCEPT ![t] = "spacing"]
         /\ loc' = [loc EXCEPT ![t] =
                [l EXCEPT !.wake = clock + (MIN_API_INTERVAL + (l.now - lastApiCall))]]
         /\ UNCHANGED <<isApiCallInProgress, hNet>>
    ELSE StartNetwork(t, l)

\* lines 38-44: the minimum interval, measured from the call's own now
ToNetwork(t, l) ==
    IF l.now - lastApiCall < MIN_API_INTERVAL
    THEN /\ pc' = [pc EXCEPT ![t] = "spacing"]
         /\ loc' = [loc EXCEPT ![t] =
                [l EXCEPT !.wake = clock + (MIN_API_INTERVAL - (l.now - lastApiCall))]]
         /\ UNCHANGED <<isApiCallInProgress, hNet>>
    ELSE StartNetwork(t, l)

\* the mutant: the cache served for the minimum interval only
cacheFreshShort(forceRefresh, now) ==
    ~forceRefresh /\ cachedData # NullSample /\ now - lastApiCall < MIN_API_INTERVAL

\* line 23
cacheFresh(forceRefresh, now) ==
    ~forceRefresh /\ cachedData # NullSample /\ now - lastApiCall < CACHE_DURATION

\* The locals of a call made now, with what the observer notes at its entry.
entryLoc(t, mode, forceRefresh) ==
    [IdleLoc EXCEPT
        !.mode = mode, !.force = forceRefresh, !.now = clock,
        !.flagAtEntry = isApiCallInProgress,
        !.busyAtEntry = \E u \in Threads \ {t} : pc[u] \in {"spacing", "net"},
        !.hitDue = ~forceRefresh /\ hNet.okAt # 0 /\ clock < hNet.okAt + 30000,
        !.hitSample = hNet.okSample,
        !.afterClear = mode = "direct" /\ ~forceRefresh /\ hCleared]

\* What the observer notes of a call served from the cache: whether the request
\* that filled the cache had started before the cache was last cleared.
servedLoc(l) == [l EXCEPT !.servedPre = l.mode = "direct" /\ hNet.okPre]

\* lines 19-50, up to the first suspension
Enter(t, l) ==
    IF cacheFresh(l.force, l.now)
    THEN Return(t, servedLoc(l), "returned", cachedData) /\ UNCHANGED <<isApiCallInProgress, hNet>>
    ELSE IF isApiCallInProgress
    THEN /\ pc' = [pc EXCEPT ![t] = "coalesce"]
         /\ loc' = [loc EXCEPT ![t] = l]
         /\ UNCHANGED <<isApiCallInProgress, hNet>>
    ELSE ToNetwork(t, l)

\* a screen calls fetchGpsData(forceRefresh)
CallFetch(t, forceRefresh) ==
    /\ pc[t] = "idle"
    /\ Enter(t, entryLoc(t, "direct", forceRefresh))
    /\ UNCHANGED <<clock, lastApiCall, cachedData, alertVars, screenVars, alertObs>>
    /\ hCleared' = FALSE
    /\ UNCHANGED <<notifyVars, intervalVars>>

\* lines 32-36: the loop is left; the cached sample if there is one
CoalesceExit(t) ==
    /\ pc[t] = "coalesce"
    /\ ~isApiCallInProgress \/ clock - loc[t].now >= CoalesceWait
    /\ IF cachedData # NullSample
       THEN Return(t, servedLoc(loc[t]), "returned", cachedData)
            /\ UNCHANGED <<isApiCallInProgress, hNet>>
       ELSE ToNetwork(t, loc[t])
    /\ UNCHANGED <<clock, lastApiCall, cachedData, alertVars, screenVars, alertObs>>
    /\ UNCHANGED <<hCleared, notifyVars, intervalVars>>

\* line 43: the timer has fired
SpacingDone(t) ==
    /\ pc[t] = "spacing"
    /\ clock >= loc[t].wake
    /\ StartNetwork(t, loc[t])
    /\ UNCHANGED <<clock, lastApiCall, cachedData, alertVars, screenVars, alertObs>>
    /\ UNCHANGED <<hCleared, notifyVars, intervalVars>>

\* the mutant: lastApiCall set to the time the call was made
NetSuccessEntryTime(t, data) ==
    /\ pc[t] = "net"
    /\ clock - loc[t].netStart < RequestTimeout
    /\ cachedData' = data
    /\ lastApiCall' = loc[t].now
    /\ isApiCallInProgress' = FALSE
    /\ hNet' = [hNet EXCEPT !.okAt = clock, !.okSample = data, !.okPre = loc[t].preClear]
    /\ Return(t, [loc[t] EXCEPT !.preClear = FALSE], "returned", data)
    /\ UNCHANGED <<clock, alertVars, screenVars, alertObs>>
    /\ UNCHANGED <<hCleared, notifyVars, intervalVars>>

\* lines 57-64 and 76-78: the response is parsed and cached
NetSuccess(t, data) ==
    /\ pc[t] = "net"
    /\ clock - loc[t].netStart < RequestTimeout
    /\ cachedData' = data
    /\ lastApiCall' = clock
    /\ isApiCallInProgress' = FALSE
    /\ hNet' = [hNet EXCEPT !.okAt = clock, !.okSample = data, !.okPre = loc[t].preClear]
    /\ Return(t, [loc[t] EXCEPT !.preClear = FALSE], "returned", data)
    /\ UNCHANGED <<clock, alertVars, screenVars, alertObs>>
    /\ UNCHANGED <<hCleared, notifyVars, intervalVars>>

\* the mutant: a failed request always throws
failureOutcomeThrow(cache) == [outcome |-> "threw", value |-> NullSample]

\* lines 69-75
failureOutcome(cache) ==
    IF cache # NullSample THEN [outcome |-> "returned", value |-> cache]
    ELSE [outcome |-> "threw", value |-> NullSample]

\* the mutant: the flag left set by a failed request
NetFailFlagKept(t) ==
    /\ pc[t] = "net"
    /\ isApiCallInProgress' = isApiCallInProgress
    /\ Return(t, [loc[t] EXCEPT !.netFailed = TRUE, !.cacheAtFail = hNet.okSample,
                               !.preClear = FALSE,
                               !.servedPre = loc[t].mode = "direct" /\ hNet.okPre],
              failureOutcome(cachedData).outcome, failureOutcome(cachedData).value)
    /\ UNCHANGED <<clock, lastApiCall, cachedData, alertVars, screenVars, alertObs, hNet>>
    /\ UNCHANGED <<hCleared, notifyVars, intervalVars>>

\* lines 66-78: the request fails or times out
NetFail(t) ==
    /\ pc[t] = "net"
    /\ isApiCallInProgress' = FALSE
    /\ Return(t, [loc[t] EXCEPT !.netFailed = TRUE, !.cacheAtFail = hNet.okSample,
                               !.preClear = FALSE,
                               !.servedPre = loc[t].mode = "direct" /\ hNet.okPre],
              failureOutcome(cachedData).outcome, failureOutcome(cachedData).value)
    /\ UNCHANGED <<clock, lastApiCall, cachedData, alertVars, screenVars, alertObs, hNet>>
    /\ UNCHANGED <<hCleared, notifyVars, intervalVars>>

\* lines 97-101
clearThingSpeakCache ==
    /\ cachedData' = NullSample
    /\ lastApiCall' = 0
    /\ hNet' = [hNet EXCEPT !.okAt = 0, !.okSample = NullSample, !.okPre = FALSE]
    /\ hCleared' = TRUE

\* What the observer notes when the cache is cleared: the requests in flight.
inFlightAtClear ==
    [t \in Threads |->
        IF pc[t] = "net" /\ loc[t].mode = "direct"
        THEN [loc[t] EXCEPT !.preClear = TRUE] ELSE loc[t]]

ClearCache ==
    /\ cachedData # NullSample \/ lastApiCall # 0
    /\ clearThingSpeakCache
    /\ loc' = inFlightAtClear
    /\ UNCHANGED <<clock, isApiCallInProgress, alertVars, screenVars, pc, alertObs>>
    /\ UNCHANGED <<notifyVars, intervalVars>>

(***************************************************************************)
(* The fetcher specification: two callers of fetchGpsData, the network     *)
(* answering or failing, the cache cleared, time passing.                  *)
(***************************************************************************)
FetchInstants == {0, 3000, 5000, 30000}

NetSamples ==
    { Sample(Num(1050), Meridian, Undefined, Num(StartTime)),
      Sample(Num(1180), Meridian, Num(3900), Num(StartTime - dataStaleThreshold - 1000)) }

NextFetch ==
    \/ \E t \in Threads, f \in BOOLEAN : CallFetch(t, f)
    \/ \E t \in Threads : CoalesceExit(t)
    \/ \E t \in Threads : SpacingDone(t)
    \/ \E t \in Threads, d \in NetSamples : NetSuccess(t, d)
    \/ \E t \in Threads : NetFail(t)
    \/ ClearCache
    \/ Advance(FetchInstants)

SpecFetch == Init /\ [][NextFetch]_vars

(***************************************************************************)
(* Claims on the alert specification.                                      *)
(***************************************************************************)

\* C1: in every completed tick, triggerAlert was called for an alert id exactly
\* when the id is in the tick's alert set and was either absent from the
\* previous tick's set or there at another level.
C1_EdgeTrigger ==
    hTick.n > 0 =>
        \A id \in AlertIds :
            id \in hTick.trig <=>
                /\ hTick.alerts[id] # "none"
                /\ hTick.prev[id] = "none" \/ hTick.prev[id] # hTick.alerts[id]

\* a tick in which danger_zone persists at warning (no call) while temperature
\* escalates from warning to critical (a call)
C1_Witness ==
    /\ hTick.n = 2
    /\ hTick.prev["danger_zone"] = "warning" /\ hTick.alerts["danger_zone"] = "warning"
    /\ "danger_zone" \notin hTick.trig
    /\ hTick.prev["temperature"] = "warning" /\ hTick.alerts["temperature"] = "critical"
    /\ "temperature" \in hTick.trig
    /\ hTick.prev["data_stale"] = "none" /\ "data_stale" \in hTick.trig

\* C2: the cooldown is per id and per level: a critical trigger for an id whose
\* last dispatched notification was at another level is never suppressed.
C2_PerLevelCooldown ==
    \A i \in 1..Len(hAttempts) :
        (hAttempts[i].level = "critical" /\ hAttempts[i].last.level \in {"warning", "info"})
            => hAttempts[i].dispatched

\* C3: a triggerAlert call is suppressed exactly when less than the cooldown of
\* the alert's level (critical 5000 ms, warning and info 10000 ms) has passed
\* since the last notification dispatched for the id; so two critical
\* notifications dispatched for one id are at least 5000 ms apart.
C3_CooldownGate ==
    \A i \in 1..Len(hAttempts) :
        /\ ~hAttempts[i].dispatched <=>
              hAttempts[i].now - hAttempts[i].last.time
                  < (IF hAttempts[i].level = "critical" THEN 5000 ELSE 10000)
        /\ (hAttempts[i].dispatched /\ hAttempts[i].level = "critical"
            /\ hAttempts[i].last.level = "critical")
              => hAttempts[i].now - hAttempts[i].last.time >= 5000

\* a second critical trigger for danger_zone 2500 ms after the first: suppressed
C3_Witness ==
    \E i \in 1..Len(hAttempts) :
        /\ hAttempts[i].id = "danger_zone" /\ hAttempts[i].level = "critical"
        /\ hAttempts[i].last.level = "critical"
        /\ hAttempts[i].now - hAttempts[i].last.time = 2500
        /\ ~hAttempts[i].dispatched

(***************************************************************************)
(* DashboardScreen.getData, the polling tick.  Each call reads refreshing,  *)
(* dangerZones and deviceLocation from the render its closure belongs to.   *)
(***************************************************************************)
\* lines 339-353: the guard, the flag, the fetch
GetData(t, refreshing) ==
    /\ pc[t] = "idle"
    /\ IF isFetchingData
       THEN UNCHANGED <<isFetchingData, isApiCallInProgress, hNet, hCleared, pc, loc>>
       ELSE /\ isFetchingData' = TRUE
            /\ hCleared' = FALSE
            /\ Enter(t, [entryLoc(t, "getData", refreshing) EXCEPT
                            !.zones = dangerZones, !.devLoc = deviceLocation])
    /\ UNCHANGED <<clock, lastApiCall, cachedData, alertVars, dangerZones,
                   deviceLocation, alertObs>>
    /\ UNCHANGED <<notifyVars, intervalVars>>

\* the mutant: a failed fetch ends the tick
AfterFetchAbort(t) ==
    /\ pc[t] = "fetched"
    /\ IF loc[t].outcome = "threw"
       THEN /\ pc' = [pc EXCEPT ![t] = "idle"]
            /\ isFetchingData' = FALSE
            /\ UNCHANGED <<alertVars, alertObs, loc>>
       ELSE /\ pc' = [pc EXCEPT ![t] = "geocode"]
            /\ UNCHANGED <<alertVars, isFetchingData, alertObs, loc>>
    /\ UNCHANGED <<clock, serviceVars, dangerZones, deviceLocation, hNet>>
    /\ UNCHANGED <<hCleared, notifyVars, intervalVars>>

\* lines 353-419: fetchGpsData has thrown, and the catch block leads to
\* processAlerts with fetchedData null; or it has returned, and getData awaits
\* the device location or the address
AfterFetch(t) ==
    /\ pc[t] = "fetched"
    /\ IF loc[t].outcome = "threw"
       THEN BeginProcessAlerts(t, loc[t], NullSample, loc[t].zones, loc[t].devLoc)
       ELSE /\ pc' = [pc EXCEPT ![t] = "geocode"]
            /\ UNCHANGED <<alertVars, isFetchingData, alertObs, loc>>
    /\ UNCHANGED <<clock, serviceVars, dangerZones, deviceLocation, hNet>>
    /\ UNCHANGED <<hCleared, notifyVars, intervalVars>>

\* lines 371-419: the awaited call is over, whatever its result
AfterGeocode(t) ==
    /\ pc[t] = "geocode"
    /\ BeginProcessAlerts(t, loc[t], loc[t].fetched, loc[t].zones, loc[t].devLoc)
    /\ UNCHANGED <<clock, serviceVars, dangerZones, deviceLocation, hNet>>
    /\ UNCHANGED <<hCleared, notifyVars, intervalVars>>

\* lines 314-320: getData is a new function after the render, and the effect
\* that depends on it is cleaned up
effectCleanup == isFetchingData' = FALSE

\* lines 263-277: loadDangerZones, and the render that follows
SetDangerZones(zones) ==
    /\ dangerZones' = zones
    /\ effectCleanup
    /\ UNCHANGED <<clock, serviceVars, alertVars, deviceLocation, pc, loc, alertObs, hNet>>
    /\ UNCHANGED <<hCleared, notifyVars, intervalVars>>

\* lines 152-154: getDeviceLocation has a position, and the render that follows
SetDeviceLocation(location) ==
    /\ deviceLocation' = location
    /\ effectCleanup
    /\ UNCHANGED <<clock, serviceVars, alertVars, dangerZones, pc, loc, alertObs, hNet>>
    /\ UNCHANGED <<hCleared, notifyVars, intervalVars>>

\* lines 442-447: onRefresh up to its await, and the render that follows
OnRefresh ==
    /\ clearThingSpeakCache
    /\ effectCleanup
    /\ UNCHANGED <<clock, isApiCallInProgress, alertVars, dangerZones, deviceLocation,
                   pc, loc, alertObs>>
    /\ UNCHANGED <<notifyVars, intervalVars>>

(***************************************************************************)
(* The driver specification: ticks requested by the timer, the foreground   *)
(* event and the refresh, while the screen renders.                         *)
(***************************************************************************)
DriverInstants == {0, 5000}
DriverZoneLists == {TickZones}
DriverSamples == {Sample(Num(1050), Meridian, Undefined, Num(StartTime))}
DriverLocations == {Point(1130)}

NextDriver ==
    \/ \E t \in Threads, r \in BOOLEAN : GetData(t, r)
    \/ \E t \in Threads : CoalesceExit(t)
    \/ \E t \in Threads : SpacingDone(t)
    \/ \E t \in Threads, d \in DriverSamples : NetSuccess(t, d)
    \/ \E t \in Threads : NetFail(t)
    \/ \E t \in Threads : AfterFetch(t)
    \/ \E t \in Threads : AfterGeocode(t)
    \/ \E t \in Threads : ResumeProcessAlerts(t)
    \/ \E z \in DriverZoneLists : SetDangerZones(z)
    \/ \E d \in DriverLocations : SetDeviceLocation(d)
    \/ OnRefresh
    \/ Advance(DriverInstants)

SpecDriver == Init /\ [][NextDriver]_vars

\* C12: a tick called with the inputs of the tick before it, no time having
\* passed, returns the same alert list and calls triggerAlert for no alert:
\* over the two ticks the dispatcher is called at most once per id.
C12_Idempotence == hTick.same => hTick.sameList /\ hTick.trig = {}

C12_Witness ==
    /\ hTick.same /\ hTick.sameList /\ hTick.trig = {}
    /\ Len(hTick.list) = 3
    /\ \A id \in AlertIds : hLastDisp[id].time = clock

\* C13: the danger_zone alert of a tick is the one of the geofence evaluated
\* at the sample's coordinates when the sample has coordinates that are
\* numbers and not 0,0, at deviceLocation otherwise, and there is none when
\* there is neither.
C13_LocationResolution ==
    hTick.n > 0 =>
        LET gps == hTick.input.gps
            usable == /\ gps # NullSample
                      /\ gps.latitude.k = "num" /\ gps.longitude.k = "num"
                      /\ ~(gps.latitude.v = 0 /\ gps.longitude.v = 0)
            location == IF usable
                        THEN [latitude |-> gps.latitude, longitude |-> gps.longitude]
                        ELSE hTick.input.devLoc
        IN  alertOf(hTick.list, "danger_zone") = dangerZoneAlertAt(location, TickZones, hTick.input.tnow)

\* C20: a tick returns a data_stale alert, of level warning, exactly when it
\* has a sample and the sample is more than 5 minutes old; when the tick has
\* neither a danger_zone nor a temperature alert, that alert is the whole list.
C20_Staleness ==
    hTick.n > 0 =>
        LET gps == hTick.input.gps
            stale == gps # NullSample /\ hTick.input.tnow - gps.createdAt.v > 300000
        IN  /\ hasAlert(hTick.list, "data_stale") <=> stale
            /\ stale => alertOf(hTick.list, "data_stale").level = "warning"
            /\ (stale /\ ~hasAlert(hTick.list, "danger_zone")
                      /\ ~hasAlert(hTick.list, "temperature")) =>
                   /\ Len(hTick.list) = 1
                   /\ hTick.list[1].id = "data_stale" /\ hTick.list[1].level = "warning"

C20_Witness ==
    /\ hTick.n > 0
    /\ hTick.input.gps = Sample(Num(0), Num(0), Undefined, Stale)
    /\ hTick.input.devLoc = NullLoc
    /\ hTick.input.tnow - Stale.v = 305000
    /\ hTick.list = <<dataStaleAlert(hTick.input.gps, hTick.input.tnow)>>
    /\ "data_stale" \in hTick.trig

\* C21: the active-alert map and the list a tick returns hold at most one
\* alert per id, each id one of danger_zone, temperature, data_stale; the
\* alert the map holds for an id after a tick is the one of that tick, the
\* earlier occurrence being replaced.
C21_OneAlertPerId ==
    (hTick.n > 0 /\ pc["t1"] = "idle") =>
        /\ \A i \in 1..Len(hTick.list) :
              hTick.list[i].id \in {"danger_zone", "temperature", "data_stale"}
        /\ \A i, j \in 1..Len(hTick.list) :
              hTick.list[i].id = hTick.list[j].id => i = j
        /\ \A id \in AlertIds :
              activeAlerts[id] # Absent =>
                  /\ activeAlerts[id].id = id
                  /\ activeAlerts[id].timestamp = hTick.input.tnow

\* two ticks 5000 ms apart, both with a danger_zone and a temperature alert,
\* the later with data_stale too: the map holds the three alerts of the later
C21_Witness ==
    /\ hTick.n = 2 /\ pc["t1"] = "idle"
    /\ Len(hTick.list) = 3
    /\ \A id \in AlertIds : activeAlerts[id] # Absent
    /\ \A id \in {"danger_zone", "temperature"} :
          /\ previousAlerts[id] # Absent
          /\ activeAlerts[id].timestamp = previousAlerts[id].timestamp + 5000

\* C23: the list a tick returns is in descending order of severity (critical,
\* warning, info), and two alerts of one level are in descending order of
\* timestamp.
C23_SortedBySeverity ==
    hTick.n > 0 =>
        LET rank(a) == CASE a.level = "critical" -> 3
                         [] a.level = "warning" -> 2
                         [] a.level = "info" -> 1
        IN  \A i, j \in 1..Len(hTick.list) :
                i < j =>
                    /\ rank(hTick.list[i]) >= rank(hTick.list[j])
                    /\ rank(hTick.list[i]) = rank(hTick.list[j]) =>
                           hTick.list[i].timestamp >= hTick.list[j].timestamp

\* the temperature alert, critical, raised after the danger_zone alert,
\* warning, and returned before it; data_stale, warning, last
C23_Witness ==
    /\ hTick.n > 0
    /\ Len(hTick.list) = 3
    /\ hTick.list[1].id = "temperature" /\ hTick.list[1].level = "critical"
    /\ hTick.list[2].id = "danger_zone" /\ hTick.list[2].level = "warning"
    /\ hTick.list[3].id = "data_stale" /\ hTick.list[3].level = "warning"

\* C24: whatever the pressure of the sample, a tick returns no alert of type
\* pressure, returns the list it returns for the same sample without pressure,
\* and calls triggerAlert for alerts of that list only.
C24_PressureNeverAlerts ==
    hTick.n > 0 =>
        LET in == hTick.input
            blank == IF in.gps = NullSample THEN NullSample
                     ELSE withPressure(in.gps, Undefined)
            expected == SelectSeq(<<dangerZoneAlert(blank, TickZones, in.devLoc, in.tnow),
                                    temperatureAlert(blank, in.tnow),
                                    dataStaleAlert(blank, in.tnow)>>,
                                  LAMBDA a : a # Absent)
        IN  /\ \A i \in 1..Len(hTick.list) : hTick.list[i].type # "pressure"
            /\ hTick.list = sortAlerts(expected)
            /\ \A id \in hTick.trig :
                  \E i \in 1..Len(hTick.list) :
                      hTick.list[i].id = id /\ hTick.list[i].type # "pressure"

\* a sample with a pressure of 700 hPa, under the normal range of the
\* configuration, near the zone: the danger_zone alert and nothing else
C24_Witness ==
    /\ hTick.n > 0
    /\ hTick.input.gps # NullSample
    /\ hTick.input.gps.pressure = Num(700)
    /\ Len(hTick.list) = 1
    /\ hTick.list[1].type = "danger_zone" /\ hTick.list[1].level = "info"
    /\ hTick.trig = {"danger_zone"}

(***************************************************************************)
(* Claims on the fetcher specification.                                    *)
(***************************************************************************)
\* C5: at most one network call is in flight at any time, and a call that
\* arrives while another caller's fetch is in progress (that caller being in
\* its minimum-interval wait or in its request) never issues a network call
\* of its own.
C5_Coalescing ==
    /\ Cardinality({t \in Threads : pc[t] = "net"}) <= 1
    /\ \A t \in Threads : loc[t].busyAtEntry => ~loc[t].netCalled

\* C6: any two network calls start at least 3000 ms apart.
C6_MinSpacing == hNet.prev # 0 => hNet.last - hNet.prev >= 3000

\* C7: a fetchGpsData(false) call made less than 30000 ms after a successful
\* network fetch, with no clearThingSpeakCache in between, returns the cached
\* sample at once and performs no network call.
C7_CacheLaw ==
    \A t \in Threads : loc[t].hitDue =>
        /\ pc[t] = "idle"
        /\ loc[t].outcome = "returned"
        /\ loc[t].fetched = loc[t].hitSample
        /\ ~loc[t].netCalled

C7_Witness ==
    \E t \in Threads :
        /\ loc[t].hitDue /\ loc[t].outcome = "returned"
        /\ loc[t].fetched \in NetSamples
        /\ loc[t].now - hNet.okAt >= MIN_API_INTERVAL
        /\ hNet.last = hNet.okAt /\ hNet.prev = 0

\* C8 as stated: every fetchGpsData(true) call that has returned or thrown
\* has called the network.
C8_ForceAlwaysNetwork ==
    \A t \in Threads :
        (loc[t].force /\ loc[t].outcome # "none") => loc[t].netCalled

\* C8 amended: a fetchGpsData(true) call made while isApiCallInProgress is
\* false never joins the wait for another call, waits at most 3000 ms and has
\* called the network by the time it returns or throws.
C8_ForceNetworkWhenFree ==
    \A t \in Threads : (loc[t].force /\ ~loc[t].flagAtEntry) =>
        /\ pc[t] # "coalesce"
        /\ pc[t] = "spacing" => loc[t].wake - loc[t].now <= 3000
        /\ loc[t].outcome # "none" => loc[t].netCalled

C8_Witness ==
    \E t \in Threads :
        /\ loc[t].force /\ ~loc[t].flagAtEntry
        /\ loc[t].outcome = "returned" /\ loc[t].netCalled
        /\ loc[t].hitSample # NullSample
        /\ loc[t].netStart - loc[t].now > 0

\* C9: a failed network call returns the cached sample, whatever its age,
\* when there is one, and throws exactly when there is none.
C9_StaleButAvailable ==
    \A t \in Threads :
        /\ loc[t].netFailed =>
              IF loc[t].cacheAtFail # NullSample
              THEN loc[t].outcome = "returned" /\ loc[t].fetched = loc[t].cacheAtFail
              ELSE loc[t].outcome = "threw"
        /\ loc[t].outcome = "threw" =>
              loc[t].netFailed /\ loc[t].cacheAtFail = NullSample

C9_Witness ==
    \E t \in Threads :
        /\ loc[t].netFailed /\ loc[t].outcome = "returned"
        /\ loc[t].fetched \in NetSamples
        /\ hNet.okAt # 0 /\ clock - hNet.okAt >= CACHE_DURATION

\* C25: the first fetchGpsData(false) made after clearThingSpeakCache is not
\* served from the cache and does not wait: it makes its network call at the
\* time it is called.
C25_Invalidate ==
    \A t \in Threads :
        loc[t].afterClear =>
            /\ loc[t].netCalled
            /\ loc[t].netStart = loc[t].now

\* C28: no step, of fetchGpsData or of clearThingSpeakCache, lowers lastApiCall.
C28_FetchedAtMonotone == [][lastApiCall' >= lastApiCall]_vars

\* C28, as the code has it: a step that lowers lastApiCall is
\* clearThingSpeakCache, which sets it to 0 and empties the cache; every
\* other step leaves it or raises it.
C28_MonotoneBetweenClears ==
    [][lastApiCall' >= lastApiCall \/ (lastApiCall' = 0 /\ cachedData' = NullSample)]_vars

\* a sample cached, the cache cleared (lastApiCall 0), and the next call,
\* answered by the network later than the first: lastApiCall is its time
C28_Witness ==
    \E t \in Threads :
        /\ loc[t].afterClear /\ pc[t] = "idle"
        /\ loc[t].netCalled /\ ~loc[t].netFailed /\ loc[t].outcome = "returned"
        /\ hNet.prev # 0 /\ hNet.prev < loc[t].netStart
        /\ lastApiCall = clock /\ hNet.okAt = clock

\* C30: isApiCallInProgress is true exactly when a network call of
\* fetchGpsData is outstanding.
C30_FlagAccurate ==
    isApiCallInProgress <=> \E t \in Threads : pc[t] = "net"

\* C31: once clearThingSpeakCache has been called, no call of fetchGpsData is
\* served from the cache a sample fetched by a request that had started
\* before the cache was cleared.
C31_InvalidationHolds ==
    \A t \in Threads : ~loc[t].servedPre

(***************************************************************************)
(* Claims on the driver specification.                                     *)
(***************************************************************************)
\* C4: at most one getData execution (fetch and processAlerts) is in flight
\* at any time.
C4_SingleTick ==
    Cardinality({t \in Threads : pc[t] # "idle" /\ loc[t].mode = "getData"}) <= 1

\* C10: once fetchGpsData has thrown, getData is in processAlerts or has
\* returned from it with the alert list; processAlerts was given a null
\* sample, and it has evaluated the geofence if there is a device location.
C10_FailureDoesNotAbort ==
    \A t \in Threads :
        (loc[t].mode = "getData" /\ loc[t].outcome = "threw" /\ pc[t] # "fetched") =>
            /\ pc[t] \in {"idle", "pa2", "pa3", "pa4"}
            /\ pc[t] = "idle" => loc[t].returned
            /\ loc[t].gps = NullSample
            /\ loc[t].devLoc # NullLoc => loc[t].evaluated

C10_Witness ==
    \E t \in Threads :
        /\ loc[t].mode = "getData" /\ loc[t].outcome = "threw"
        /\ pc[t] = "idle" /\ loc[t].returned
        /\ loc[t].devLoc = Point(1130) /\ loc[t].evaluated
        /\ \E i \in 1..Len(loc[t].newAlerts) : loc[t].newAlerts[i].id = "danger_zone"

\* C22: when a tick completes, the active alerts (what getActiveAlerts gives)
\* are exactly the alerts of the list the tick returns: an id without an alert
\* in the list has none in the map, and no alert of an earlier tick is left.
C22_AlertRemoval ==
    [][\A t \in Threads :
           (pc[t] # "idle" /\ pc'[t] = "idle" /\ loc'[t].mode = "getData"
            /\ loc'[t].returned) =>
               \A id \in AlertIds : activeAlerts'[id] = alertOf(loc'[t].newAlerts, id)]_vars

(***************************************************************************)
(* The storage specification: the zone list is read from AsyncStorage,     *)
(* whatever it holds, and ticks follow one another on the list read.  The   *)
(* fetch is left out: its result is any sample.                            *)
(***************************************************************************)
\* What '@danger_zones' may hold: nothing, text that is not JSON, or JSON.
NotStored == [k |-> "absent"]
NotJson == [k |-> "text"]
JsonNull == [k |-> "null"]
JsonList(v) == [k |-> "list", v |-> v]

\* lines 263-277: the list setDangerZones is left with.  JSON.parse throws on
\* text that is not JSON, zones.length throws on null, and both are caught.
loadDangerZones(stored) ==
    IF stored.k = "absent" THEN <<>>
    ELSE IF stored.k = "text" THEN <<>>
    ELSE IF stored.k = "null" THEN <<>>
    ELSE stored.v

LoadDangerZones(stored) == SetDangerZones(loadDangerZones(stored))

\* lines 417-438 of getData, fetchedData being what lines 350-415 left
ProcessFetched(fetchedData) ==
    /\ \A t \in Threads : pc[t] = "idle"
    /\ BeginProcessAlerts("t1", [IdleLoc EXCEPT !.mode = "getData"], fetchedData,
                          dangerZones, deviceLocation)
    /\ UNCHANGED <<clock, serviceVars, dangerZones, deviceLocation, hNet>>
    /\ UNCHANGED <<hCleared, notifyVars, intervalVars>>

StoredZones ==
    { NotStored, NotJson, JsonNull, JsonList(TickZones), JsonList(<<NullZone>>),
      JsonList(<<Zone(1, 1000, 100, "Quarry"), NullZone>>) }
StorageInstants == {0, 10000}

NextStorage ==
    \/ \E stored \in StoredZones : LoadDangerZones(stored)
    \/ \E d \in DriverLocations : SetDeviceLocation(d)
    \/ \E g \in TickSamples : ProcessFetched(g)
    \/ ResumeProcessAlerts("t1")
    \/ Advance(StorageInstants)

SpecStorage == Init /\ [][NextStorage]_vars

(***************************************************************************)
(* Claims on the storage specification.                                    *)
(***************************************************************************)
\* C11: a tick that is over has returned its alert list, whatever the zone
\* list, and the list holds the temperature alert its sample calls for.
C11_EvaluatorFailureContained ==
    \A t \in Threads :
        (loc[t].mode = "getData" /\ pc[t] = "idle") =>
            /\ loc[t].returned /\ ~loc[t].threw
            /\ temperatureAlert(loc[t].gps, 0) # Absent =>
                   hasAlert(loc[t].newAlerts, "temperature")

(***************************************************************************)
(* The evaluator specification: checkDangerZones and getTemperatureStatus  *)
(* applied to any point, zone list and temperature; loc holds the          *)
(* arguments and the result of the call made last.                         *)
(***************************************************************************)
\* Two zones of radius 100, 400 m apart on the meridian, under any names.
ZoneA(name) == Zone(1, 1000, 100, name)
ZoneB(name) == Zone(2, 1400, 100, name)
\* A small unnamed zone, of radius 10, 190 m from the centre of zone A.
ZoneC == Zone(3, 1190, 10, "")

EvalZoneLists ==
    {<<>>}
    \cup {<<ZoneA(""), ZoneC>>, <<ZoneC, ZoneA("")>>}
    \cup {<<ZoneA(n)>> : n \in ZoneNames}
    \cup {<<ZoneB(n)>> : n \in ZoneNames}
    \cup {<<ZoneA(n1), ZoneB(n2)>> : n1 \in ZoneNames, n2 \in ZoneNames}
    \cup {<<ZoneB(n2), ZoneA(n1)>> : n1 \in ZoneNames, n2 \in ZoneNames}

\* latitudes, in metres: the centre of zone A, its boundary, the boundaries of
\* its bands, and points between the two zones and beyond
EvalLatitudes ==
    {1000, 1100, 1101, 1150, 1151, 1200, 1201, 1250, 1300, 1301, 1350, 2000}

\* temperatures, in hundredths of a degree
EvalTemperatures ==
    {Undefined, NaN} \cup
    {Num(v) : v \in {3400, 3480, 3490, 3495, 3500, 3650, 3750, 3755, 3760, 3800,
                     3850, 3855, 3860, 3900}}

CallCheckDangerZones(latitude, zones) ==
    /\ loc' = [loc EXCEPT !["t1"] =
            [mode |-> "checkDangerZones", latitude |-> Num(latitude), zones |-> zones,
             result |-> checkDangerZones(Num(latitude), Meridian, zones)]]
    /\ UNCHANGED <<clock, serviceVars, alertVars, screenVars, pc, alertObs, hNet>>
    /\ UNCHANGED <<hCleared, notifyVars, intervalVars>>

CallGetTemperatureStatus(temperature) ==
    /\ loc' = [loc EXCEPT !["t1"] =
            [mode |-> "getTemperatureStatus", temperature |-> temperature,
             result |-> getTemperatureStatus(temperature)]]
    /\ UNCHANGED <<clock, serviceVars, alertVars, screenVars, pc, alertObs, hNet>>
    /\ UNCHANGED <<hCleared, notifyVars, intervalVars>>

NextEvaluators ==
    \/ \E p \in EvalLatitudes, z \in EvalZoneLists : CallCheckDangerZones(p, z)
    \/ \E v \in EvalTemperatures : CallGetTemperatureStatus(v)

SpecEvaluators == Init /\ [][NextEvaluators]_vars

(***************************************************************************)
(* Claims on the evaluator specification.  In them d(i) is the distance of *)
(* the point from zone i of the list, in metres.                           *)
(***************************************************************************)
\* C14: when no zone of the list contains the point, the level returned is
\* the most severe band any zone puts the point in, whatever the order.
C14_TieBreak ==
    loc["t1"].mode = "checkDangerZones" =>
        LET l == loc["t1"]
            n == Len(l.zones)
            d(i) == Abs(l.zones[i].latitude.v - l.latitude.v)
            r(i) == l.zones[i].radius
            best == IF \E i \in 1..n : d(i) <= r(i) + 50 THEN "critical"
                    ELSE IF \E i \in 1..n : d(i) <= r(i) + 100 THEN "warning"
                    ELSE IF \E i \in 1..n : d(i) <= r(i) + 200 THEN "info"
                    ELSE "none"
        IN  (\A i \in 1..n : d(i) > r(i)) => l.result.level = best

\* C15: when some zone of the list contains the point, the level is critical
\* and the status is the INSIDE one, whatever the order and the other zones.
C15_InsideAuthoritative ==
    loc["t1"].mode = "checkDangerZones" =>
        LET l == loc["t1"]
            d(i) == Abs(l.zones[i].latitude.v - l.latitude.v)
        IN  (\E i \in 1..Len(l.zones) : d(i) <= l.zones[i].radius) =>
                l.result.level = "critical" /\ l.result.status.kind = "INSIDE"

C15_Witness ==
    /\ loc["t1"].mode = "checkDangerZones"
    /\ loc["t1"].latitude = Num(1100)
    /\ loc["t1"].zones = <<ZoneB("INSIDE TRACK"), ZoneA("Quarry")>>
    /\ loc["t1"].result.level = "critical"
    /\ loc["t1"].result.status.kind = "INSIDE" /\ loc["t1"].result.status.zone = 1

C17_Scenario ==
    (loc["t1"].mode = "checkDangerZones" /\ Len(loc["t1"].zones) = 1
     /\ loc["t1"].zones[1].radius = 100) =>
        LET l == loc["t1"]
            d == Abs(l.zones[1].latitude.v - l.latitude.v)
        IN  /\ d = 150 => l.result.level = "critical"
                          /\ l.result.status.kind = "CRITICAL PROXIMITY"
            /\ d = 250 => l.result.level = "warning"
            /\ d = 350 => l.result.level = "info"
            /\ d = 1000 => l.result.level = "none" /\ l.result.distance = Num(1000)

\* C17 amended: 150 m from the centre is critical proximity, 250 m info,
\* 350 m safe, and 1000 m safe with a closest-zone distance of 1000.
C17_ScenarioAsCoded ==
    (loc["t1"].mode = "checkDangerZones" /\ Len(loc["t1"].zones) = 1
     /\ loc["t1"].zones[1].radius = 100) =>
        LET l == loc["t1"]
            d == Abs(l.zones[1].latitude.v - l.latitude.v)
        IN  /\ d = 150 => l.result.level = "critical"
                          /\ l.result.status.kind = "CRITICAL PROXIMITY"
            /\ d = 250 => l.result.level = "info" /\ l.result.status.kind = "NEAR"
            /\ d = 350 => l.result.level = "none" /\ l.result.distance = Num(350)
            /\ d = 1000 => l.result.level = "none" /\ l.result.distance = Num(1000)

C17_Witness ==
    /\ loc["t1"].mode = "checkDangerZones"
    /\ loc["t1"].zones = <<ZoneA("")>>
    /\ loc["t1"].latitude = Num(1250)
    /\ loc["t1"].result.level = "info"
    /\ loc["t1"].result.distance = Num(250)
    /\ loc["t1"].result.status.kind = "NEAR"

\* C18: on the empty zone list the result is level null and distance 0 at
\* every point, and processAlerts makes no danger_zone alert of it.
C18_EmptyZoneList ==
    (loc["t1"].mode = "checkDangerZones" /\ Len(loc["t1"].zones) = 0) =>
        /\ loc["t1"].result.level = "none"
        /\ loc["t1"].result.distance = Num(0)
        /\ dangerZoneResultAlert(loc["t1"].result, 0) = Absent

C18_Witness ==
    /\ loc["t1"].mode = "checkDangerZones"
    /\ loc["t1"].zones = <<>>
    /\ loc["t1"].latitude = Num(1000)
    /\ loc["t1"].result.distance = Num(0)
    /\ loc["t1"].result.status.kind = "Safe (No Danger Zones)"

\* C19: 38.6 is critical (level critical), 38.5 warning (level warning),
\* 34.9 low (level info) and 35.0 normal (level null).
C19_TemperatureBoundaries ==
    loc["t1"].mode = "getTemperatureStatus" =>
        LET l == loc["t1"]
        IN  /\ l.temperature = Num(3860) =>
                   l.result = [status |-> "critical", level |-> "critical"]
            /\ l.temperature = Num(3850) =>
                   l.result = [status |-> "warning", level |-> "warning"]
            /\ l.temperature = Num(3490) => l.result = [status |-> "low", level |-> "info"]
            /\ l.temperature = Num(3500) => l.result = [status |-> "normal", level |-> "none"]

\* C29: the level checkDangerZones returns for a point and a zone list is
\* the level it returns for the same point and the same zones without their
\* names: two lists that differ in the names only give the same level.
C29_NameIndependence ==
    loc["t1"].mode = "checkDangerZones" =>
        LET l == loc["t1"]
            unnamed == [i \in 1..Len(l.zones) |-> [l.zones[i] EXCEPT !.name = ""]]
        IN  l.result.level = checkDangerZones(l.latitude, Meridian, unnamed).level

\* C32: when checkDangerZones returns a level, the closest zone and the
\* distance it returns are those of the zone named in the status, the zone
\* that set the level.
C32_DistanceOfLevelZone ==
    (loc["t1"].mode = "checkDangerZones" /\ loc["t1"].result.level # "none") =>
        LET l == loc["t1"]
            named == {i \in 1..Len(l.zones) : l.zones[i].id = l.result.status.zone}
        IN  /\ l.result.closestZone = l.result.status.zone
            /\ \A i \in named :
                   l.result.distance =
                       calculateDistance(l.latitude, Meridian, l.zones[i].latitude,
                                         l.zones[i].longitude)

\* C33: every temperature above 37.5 degrees gets a level, and a hotter
\* temperature never gets a less severe level than a cooler one above 37.5.
C33_TemperatureMonotone ==
    (loc["t1"].mode = "getTemperatureStatus" /\ loc["t1"].temperature.k = "num"
     /\ loc["t1"].temperature.v > TempNormalMax) =>
        LET l == loc["t1"]
            rank(level) == CASE level = "critical" -> 3 [] level = "warning" -> 2
                             [] level = "info" -> 1 [] OTHER -> 0
        IN  /\ l.result.level # "none"
            /\ \A u \in EvalTemperatures :
                   (u.k = "num" /\ u.v > TempNormalMax /\ u.v <= l.temperature.v) =>
                       rank(getTemperatureStatus(u).level) <= rank(l.result.level)

(***************************************************************************)
(* NotificationService.triggerAlert and the configuration.  A call that is *)
(* dispatched stands at "haptic" (the pulse of lines 102, 112 or 119 is     *)
(* awaited) or at "audio" (the sound of lines 70-86 is awaited); a channel  *)
(* that is switched off does not suspend it.  loc holds the alert, the     *)
(* sinks invoked, the pulses scheduled, and the channels that were on       *)
(* (off) at some moment of the call.  The service is initialized.           *)
(***************************************************************************)
Channels == {"haptics", "audio", "visual"}

enabledChannels(cfg) ==
    {c \in Channels : CASE c = "haptics" -> cfg.enableHaptics
                        [] c = "audio" -> cfg.enableAudio
                        [] c = "visual" -> cfg.enableVisual}

\* line 96
hapticsEnabled(cfg) == cfg.enableHaptics

\* the mutant: the sound played whatever the configuration
audioEnabledAlways(cfg) == TRUE

\* line 63
audioEnabled(cfg) == cfg.enableAudio

\* line 163
showsDialog(cfg, alert) == alert.level = "critical" /\ cfg.enableVisual

\* lines 102, 112, 119: the style of the pulses of a level
pulseStyle(level) ==
    CASE level = "critical" -> "Heavy"
      [] level = "warning" -> "Medium"
      [] level = "info" -> "Light"

\* the mutant: the further pulses of a critical alert set whatever the distance
pulseDelaysAnyDistance(alert) ==
    IF alert.level = "critical" THEN <<200, 400, 600>>
    ELSE IF "distance" \notin DOMAIN alert THEN <<>>
    ELSE IF alert.level = "warning" /\ Le(alert.distance, Num(100)) THEN <<300>>
    ELSE <<>>

\* lines 104-108 and 113-115: the delays of the pulses set on timers after
\* the first one
pulseDelays(alert) ==
    IF "distance" \notin DOMAIN alert THEN <<>>
    ELSE IF alert.level = "critical" /\ Le(alert.distance, Num(50)) THEN <<200, 400, 600>>
    ELSE IF alert.level = "warning" /\ Le(alert.distance, Num(100)) THEN <<300>>
    ELSE <<>>

\* how many they are
scheduledPulses(alert) == Len(pulseDelays(alert))

\* lines 162-171: the dialog, and the call is over
dialogStep(l, cfg) ==
    [pc |-> "idle", l |-> [l EXCEPT !.dialog = showsDialog(cfg, l.alert)]]

\* line 160 and lines 62-93
audioStep(l, cfg) ==
    IF audioEnabled(cfg) THEN [pc |-> "audio", l |-> [l EXCEPT !.audio = TRUE]]
    ELSE dialogStep(l, cfg)

\* line 157 and lines 95-102
hapticStep(l, cfg) ==
    IF hapticsEnabled(cfg)
    THEN [pc |-> "haptic", l |-> [l EXCEPT !.haptic = TRUE,
                                           !.style = pulseStyle(l.alert.level)]]
    ELSE audioStep(l, cfg)

\* the mutant: the sinks invoked whatever the cooldown says
cooldownStepAlways(l, cfg) == hapticStep(l, cfg)

\* lines 150-152
cooldownStep(l, cfg) ==
    IF l.dispatched THEN hapticStep(l, cfg) ELSE [pc |-> "idle", l |-> l]

NotifyGoto(r) ==
    /\ pc' = [pc EXCEPT !["t1"] = r.pc]
    /\ loc' = [loc EXCEPT !["t1"] = r.l]

\* the bound on the pulses waiting on timers
MaxTimers == 3

NotifyCall(alert, r) ==
    /\ lastAlertTimes' = r.times
    /\ hAttempts' = <<[id |-> alert.id, level |-> alert.level, now |-> clock,
                       dispatched |-> r.ok, last |-> hLastDisp[alert.id]]>>
    /\ hLastDisp' = IF r.ok
                    THEN [hLastDisp EXCEPT ![alert.id] =
                              [level |-> alert.level, time |-> clock]]
                    ELSE hLastDisp
    /\ NotifyGoto(cooldownStep([mode |-> "triggerAlert", alert |-> alert,
                                dispatched |-> r.ok, haptic |-> FALSE, audio |-> FALSE,
                                dialog |-> FALSE, scheduled |-> 0, threw |-> FALSE,
                                style |-> "none", felt |-> FALSE, delays |-> <<>>,
                                on |-> enabledChannels(config),
                                off |-> Channels \ enabledChannels(config)],
                               config))

\* lines 144-157, up to the first suspension
TriggerAlert(alert) ==
    /\ pc["t1"] = "idle"
    /\ timers + scheduledPulses(alert) <= MaxTimers
    /\ NotifyCall(alert, shouldTriggerAlert(lastAlertTimes, clock, alert.id, alert.level))
    /\ UNCHANGED <<clock, serviceVars, activeAlerts, previousAlerts, screenVars, hTick,
                   hNet, hCleared, intervalVars, config, timers>>

\* lines 102-125: the pulse is over, or Haptics threw and the catch block logged
\* it; after a pulse the further pulses are set on timers
HapticDone(ok) ==
    /\ pc["t1"] = "haptic"
    /\ timers' = IF ok THEN timers + scheduledPulses(loc["t1"].alert) ELSE timers
    /\ NotifyGoto(audioStep([loc["t1"] EXCEPT
                                 !.felt = ok,
                                 !.delays = IF ok THEN pulseDelays(loc["t1"].alert)
                                            ELSE <<>>,
                                 !.scheduled =
                                     IF ok THEN scheduledPulses(loc["t1"].alert) ELSE 0],
                            config))
    /\ UNCHANGED <<clock, serviceVars, alertVars, screenVars, alertObs, hNet, hCleared, intervalVars,
                   config>>

\* lines 70-92: the sound is loaded, or Audio threw and the catch block logged it
AudioDone(ok) ==
    /\ pc["t1"] = "audio"
    /\ NotifyGoto(dialogStep(loc["t1"], config))
    /\ UNCHANGED <<clock, serviceVars, alertVars, screenVars, alertObs, hNet, hCleared, intervalVars,
                   config, timers>>

\* lines 105-107 and 114: a timer fires, Haptics.impactAsync is called
Pulse ==
    /\ timers > 0
    /\ timers' = timers - 1
    /\ UNCHANGED <<clock, serviceVars, alertVars, screenVars, pc, loc, alertObs, hNet,
                   hCleared, intervalVars, config>>

\* lines 187-189; a call in progress notes the channels switched on and off
UpdateConfig(newConfig) ==
    /\ newConfig # config
    /\ config' = newConfig
    /\ loc' = IF pc["t1"] = "idle" THEN loc
              ELSE [loc EXCEPT !["t1"].on = @ \cup enabledChannels(newConfig),
                               !["t1"].off = @ \cup (Channels \ enabledChannels(newConfig))]
    /\ UNCHANGED <<clock, serviceVars, alertVars, screenVars, pc, alertObs, hNet,
                   hCleared, intervalVars, timers>>

\* the mutant: the timestamps kept
clearAlertCooldownsNot(times) == times

\* line 192
clearAlertCooldowns(times) == [id \in AlertIds |-> 0]

\* lines 191-193; the observer marks the last dispatch of each id as cleared
ClearAlertCooldowns ==
    /\ \E id \in AlertIds : hLastDisp[id].level \notin {"none", "cleared"}
    /\ lastAlertTimes' = clearAlertCooldowns(lastAlertTimes)
    /\ hLastDisp' = [id \in AlertIds |-> [level |-> "cleared", time |-> hLastDisp[id].time]]
    /\ UNCHANGED <<clock, serviceVars, activeAlerts, previousAlerts, screenVars, pc, loc,
                   hTick, hAttempts, hNet, hCleared, intervalVars, config, timers>>

(***************************************************************************)
(* The notification specification: triggerAlert called on any alert, one   *)
(* call at a time, while the configuration is changed, the cooldowns are   *)
(* cleared and time passes (the timers, of 600 ms at most, fire first).    *)
(***************************************************************************)
NotifyInstants == {0, 5000}

\* a zone of radius 10
SmallZones == <<Zone(1, 1000, 10, "Quarry")>>

\* alerts as processAlerts makes them: inside a zone of radius 100 at 30 m and
\* at 90 m of its centre; approaching it at 180 m; near it at 250 m;
\* approaching a zone of radius 10 at 80 m; a temperature of 39.0
NotifyAlerts ==
    { dangerZoneAlertAt(Point(1030), TickZones, StartTime),
      dangerZoneAlertAt(Point(1090), TickZones, StartTime),
      dangerZoneAlertAt(Point(1180), TickZones, StartTime),
      dangerZoneAlertAt(Point(1250), TickZones, StartTime),
      dangerZoneAlertAt(Point(1080), SmallZones, StartTime),
      temperatureResultAlert(getTemperatureStatus(Num(3900)), Num(3900), StartTime) }

Configs == [enableHaptics : BOOLEAN, enableAudio : BOOLEAN, enableVisual : BOOLEAN]

NextNotify ==
    \/ \E a \in NotifyAlerts : TriggerAlert(a)
    \/ \E ok \in BOOLEAN : HapticDone(ok)
    \/ \E ok \in BOOLEAN : AudioDone(ok)
    \/ Pulse
    \/ \E c \in Configs : UpdateConfig(c)
    \/ ClearAlertCooldowns
    \/ timers = 0 /\ Advance(NotifyInstants)

SpecNotify == Init /\ [][NextNotify]_vars

(***************************************************************************)
(* Claims on the notification specification.                               *)
(***************************************************************************)
\* C26: a call of triggerAlert during which a channel stays switched off
\* invokes no sink of that channel (no pulse, and none scheduled; no sound; no
\* dialog) and does not throw; a dispatched call during which a channel stays
\* switched on invokes its sink, the dialog for critical alerts only.
C26_ChannelToggles ==
    loc["t1"].mode = "triggerAlert" =>
        LET l == loc["t1"]
        IN  /\ ~l.threw
            /\ "haptics" \notin l.on => ~l.haptic /\ l.scheduled = 0
            /\ "audio" \notin l.on => ~l.audio
            /\ "visual" \notin l.on => ~l.dialog
            /\ l.dialog => l.alert.level = "critical"
            /\ (pc["t1"] = "idle" /\ l.dispatched) =>
                  /\ "haptics" \notin l.off => l.haptic
                  /\ "audio" \notin l.off => l.audio
                  /\ "visual" \notin l.off => (l.dialog <=> l.alert.level = "critical")

\* a critical alert dispatched with the haptics off and the other channels
\* on: no pulse, the sound, the dialog
C26_Witness ==
    /\ loc["t1"].mode = "triggerAlert" /\ pc["t1"] = "idle"
    /\ loc["t1"].dispatched /\ loc["t1"].alert.level = "critical"
    /\ loc["t1"].on = {"audio", "visual"} /\ loc["t1"].off = {"haptics"}
    /\ ~loc["t1"].haptic /\ loc["t1"].audio /\ loc["t1"].dialog

\* C27: the first triggerAlert made for an id after clearAlertCooldowns is
\* dispatched, whenever the id was last dispatched before.
C27_ClearCooldowns ==
    \A i \in 1..Len(hAttempts) :
        hAttempts[i].last.level = "cleared" => hAttempts[i].dispatched

\* an id dispatched, the cooldowns cleared, the id dispatched again, all at
\* one instant
C27_Witness ==
    \E i \in 1..Len(hAttempts) :
        /\ hAttempts[i].last.level = "cleared"
        /\ hAttempts[i].last.time = hAttempts[i].now
        /\ hAttempts[i].dispatched

\* C34: a call of triggerAlert suppressed by the cooldown leaves
\* lastAlertTimes as it was, invokes no haptic, audio or visual sink, sets no
\* pulse on a timer and is over at once.
C34_SuppressedCallFrame ==
    [][(/\ pc["t1"] = "idle"
        /\ (loc' # loc \/ hAttempts' # hAttempts)
        /\ Len(hAttempts') = 1
        /\ ~hAttempts'[1].dispatched) =>
            /\ lastAlertTimes' = lastAlertTimes
            /\ pc'["t1"] = "idle"
            /\ ~loc'["t1"].haptic /\ ~loc'["t1"].audio /\ ~loc'["t1"].dialog
            /\ loc'["t1"].scheduled = 0
            /\ timers' = timers]_vars

\* a warning alert dispatched, then suppressed 5000 ms later: the timestamp
\* of its id is still that of the dispatch
C34_Witness ==
    /\ loc["t1"].mode = "triggerAlert" /\ pc["t1"] = "idle"
    /\ ~loc["t1"].dispatched /\ loc["t1"].alert.level = "warning"
    /\ Len(hAttempts) = 1 /\ ~hAttempts[1].dispatched
    /\ hAttempts[1].last.level = "warning"
    /\ hAttempts[1].now = hAttempts[1].last.time + 5000
    /\ lastAlertTimes[hAttempts[1].id] = hAttempts[1].last.time

\* C37: in a call of triggerAlert whose first pulse was given, that pulse is
\* Heavy for critical, Medium for warning and Light for info; the pulses set
\* on timers are three at 200, 400 and 600 ms exactly when the alert is critical
\* with a distance of at most 50, one at 300 ms exactly when it is warning
\* with a distance of at most 100, none otherwise; and the call goes on to
\* its end without waiting for them.
C37_HapticSchedule ==
    loc["t1"].mode = "triggerAlert" =>
        LET l == loc["t1"]
            within(n) == /\ "distance" \in DOMAIN l.alert
                         /\ l.alert.distance.k = "num" /\ l.alert.distance.v <= n
        IN  /\ l.haptic =>
                   /\ l.alert.level = "critical" => l.style = "Heavy"
                   /\ l.alert.level = "warning" => l.style = "Medium"
                   /\ l.alert.level = "info" => l.style = "Light"
            /\ l.felt =>
                   /\ l.delays = <<200, 400, 600>> <=>
                          (l.alert.level = "critical" /\ within(50))
                   /\ l.delays = <<300>> <=> (l.alert.level = "warning" /\ within(100))
                   /\ l.delays \in {<<>>, <<300>>, <<200, 400, 600>>}
                   /\ l.alert.level = "info" => l.delays = <<>>
            /\ ~l.felt => l.delays = <<>>
            /\ pc["t1"] = "audio" => ENABLED AudioDone(TRUE)

\* a critical alert at 30 m: the call is over and its three further pulses
\* are still waiting on their timers
C37_Witness ==
    /\ loc["t1"].mode = "triggerAlert" /\ pc["t1"] = "idle"
    /\ loc["t1"].alert.level = "critical" /\ loc["t1"].felt
    /\ loc["t1"].style = "Heavy" /\ loc["t1"].delays = <<200, 400, 600>>
    /\ timers = 3

(***************************************************************************)
(* DashboardScreen: the effect that keeps the polling interval.  armed     *)
(* holds [h, period] for every interval set with setInterval and not       *)
(* cleared; the ref dataFetchInterval holds a handle or null.              *)
(***************************************************************************)
\* the mutant: warning looked at before critical
getUpdateIntervalWarningFirst(alerts) ==
    IF \E i \in 1..Len(alerts) : alerts[i].level = "warning" THEN 8000
    ELSE IF \E i \in 1..Len(alerts) : alerts[i].level = "critical" THEN 5000
    ELSE 10000

\* lines 504-518
getUpdateInterval(alerts) ==
    IF \E i \in 1..Len(alerts) : alerts[i].level = "critical" THEN 5000
    ELSE IF \E i \in 1..Len(alerts) : alerts[i].level = "warning" THEN 8000
    ELSE 10000

\* the mutant: the interval left running
clearIntervalNot(intervals, h) == intervals

\* clearInterval(h)
clearInterval(intervals, h) == {a \in intervals : a.h # h}

\* lines 498-501, 528-531 and 487-490: the interval of the ref cleared, the ref
\* set to null; s is [armed, ref]
clearExisting(s) ==
    IF s.ref # 0 THEN [armed |-> clearInterval(s.armed, s.ref), ref |-> 0] ELSE s

\* lines 520-525: setInterval returns h
setDataFetchInterval(s, h, alerts) ==
    [armed |-> s.armed \cup {[h |-> h, period |-> getUpdateInterval(alerts)]}, ref |-> h]

\* lines 496-526: the body of the effect
intervalEffect(s, h, alerts) == setDataFetchInterval(clearExisting(s), h, alerts)

\* a dependency changed: the cleanup of lines 527-532, then the body
rerunIntervalEffect(s, h, alerts) == intervalEffect(clearExisting(s), h, alerts)

\* the bound on the handles setInterval returns
MaxHandle == 4

IntervalGoto(s) ==
    /\ armed' = s.armed
    /\ dataFetchInterval' = s.ref
    /\ nextHandle' = nextHandle + 1

\* the first render: activeAlerts is [], the effect runs
Mount ==
    /\ ~mounted /\ nextHandle <= MaxHandle
    /\ mounted' = TRUE
    /\ screenAlerts' = <<>>
    /\ isFetchingData' = FALSE
    /\ IntervalGoto(intervalEffect([armed |-> armed, ref |-> dataFetchInterval],
                                   nextHandle, <<>>))
    /\ UNCHANGED <<clock, serviceVars, alertVars, dangerZones, deviceLocation, pc, loc,
                   alertObs, hNet, hCleared, notifyVars>>

\* lines 521-525: an interval fires and getData starts
IntervalFires ==
    /\ armed # {} /\ ~isFetchingData
    /\ isFetchingData' = TRUE
    /\ UNCHANGED <<clock, serviceVars, alertVars, dangerZones, deviceLocation, pc, loc,
                   alertObs, hNet, hCleared, notifyVars, intervalVars>>

\* part_001:419 and 436: getData ends with setActiveAlerts(alerts); the new
\* array re-runs the effect of a mounted screen
SetActiveAlerts(alerts) ==
    /\ isFetchingData /\ (mounted => nextHandle <= MaxHandle)
    /\ isFetchingData' = FALSE
    /\ IF mounted
       THEN /\ screenAlerts' = alerts
            /\ IntervalGoto(rerunIntervalEffect(
                                [armed |-> armed, ref |-> dataFetchInterval],
                                nextHandle, alerts))
       ELSE UNCHANGED <<screenAlerts, armed, dataFetchInterval, nextHandle>>
    /\ UNCHANGED <<clock, serviceVars, alertVars, dangerZones, deviceLocation, pc, loc,
                   alertObs, hNet, hCleared, notifyVars, mounted>>

\* part_001:432-436: processAlerts threw, activeAlerts is left as it was
GetDataFails ==
    /\ isFetchingData
    /\ isFetchingData' = FALSE
    /\ UNCHANGED <<clock, serviceVars, alertVars, dangerZones, deviceLocation, pc, loc,
                   alertObs, hNet, hCleared, notifyVars, intervalVars>>

\* line 533: getData is a new function (its dependencies changed), the effect
\* runs again on the same alerts
GetDataChanged ==
    /\ mounted /\ nextHandle <= MaxHandle
    /\ IntervalGoto(rerunIntervalEffect([armed |-> armed, ref |-> dataFetchInterval],
                                        nextHandle, screenAlerts))
    /\ UNCHANGED <<clock, serviceVars, alertVars, screenVars, pc, loc, alertObs, hNet,
                   hCleared, notifyVars, mounted, screenAlerts>>

\* the screen is unmounted: the cleanups of lines 527-532 and 485-492
Unmount ==
    /\ mounted
    /\ mounted' = FALSE
    /\ isFetchingData' = FALSE
    /\ armed' = clearExisting(clearExisting([armed |-> armed,
                                             ref |-> dataFetchInterval])).armed
    /\ dataFetchInterval' = 0
    /\ UNCHANGED <<clock, serviceVars, alertVars, dangerZones, deviceLocation, pc, loc,
                   alertObs, hNet, hCleared, notifyVars, screenAlerts, nextHandle>>

\* the lists processAlerts returns: at most one alert of each id, sorted
presentAlerts(alerts) == SelectSeq(alerts, LAMBDA a : a # Absent)

IntervalAlertLists ==
    { sortAlerts(presentAlerts(<<dz, t, st>>)) :
        dz \in {Absent} \cup {dangerZoneAlertAt(Point(x), TickZones, StartTime) :
                                 x \in {1030, 1180, 1250}},
        t \in {Absent} \cup {temperatureResultAlert(getTemperatureStatus(Num(v)),
                                                    Num(v), StartTime) :
                                v \in {3400, 3800, 3900}},
        st \in {Absent,
                dataStaleAlert(Sample(Num(1280), Meridian, Num(3650), Stale), StartTime)} }

NextInterval ==
    \/ Mount
    \/ IntervalFires
    \/ \E a \in IntervalAlertLists : SetActiveAlerts(a)
    \/ GetDataFails
    \/ GetDataChanged
    \/ Unmount

SpecInterval == Init /\ [][NextInterval]_vars

(***************************************************************************)
(* Claims on the interval specification.                                   *)
(***************************************************************************)
\* C38: the period of the interval that is armed is 5000 ms when an alert of
\* the screen's list is critical, else 8000 ms when one is warning, else
\* 10000 ms.
C38_PollingPeriod ==
    \A a \in armed :
        LET has(level) == \E i \in 1..Len(screenAlerts) : screenAlerts[i].level = level
        IN  a.period = IF has("critical") THEN 5000
                       ELSE IF has("warning") THEN 8000 ELSE 10000

\* info alerts only, and the interval armed has the period 10000
C38_Witness ==
    /\ Len(screenAlerts) = 2
    /\ \A i \in 1..Len(screenAlerts) : screenAlerts[i].level = "info"
    /\ \E a \in armed : a.period = 10000

\* C39: at most one interval is armed, the one the ref holds; none is armed
\* when the screen is not mounted.
C39_OneInterval ==
    /\ Cardinality(armed) <= 1
    /\ \A a \in armed : a.h = dataFetchInterval
    /\ ~mounted => armed = {}

\* the alert list has changed twice since the screen was mounted: the third
\* interval set is the only one armed
C39_Witness ==
    /\ mounted /\ screenAlerts # <<>>
    /\ \E a \in armed : a.h = 3 /\ a.h = dataFetchInterval
    /\ Cardinality(armed) = 1

(***************************************************************************)
(* AlertManager.clearAllAlerts, called between ticks of processAlerts.     *)
(***************************************************************************)
\* What the observer notes of clearAllAlerts: the last tick and the last
\* dispatches are marked as cleared.
clearedTick ==
    [hTick EXCEPT !.alerts = [id \in AlertIds |-> "cleared"], !.trig = {}, !.list = <<>>]

clearedDispatches ==
    [id \in AlertIds |-> [level |-> "cleared", time |-> hLastDisp[id].time]]

\* the mutant: the active alerts kept
ClearAllAlertsKeepActive ==
    /\ \A t \in Threads : pc[t] = "idle"
    /\ activeAlerts' = activeAlerts
    /\ previousAlerts' = NoAlerts
    /\ lastAlertTimes' = clearAlertCooldowns(lastAlertTimes)
    /\ hTick' = clearedTick
    /\ hLastDisp' = clearedDispatches
    /\ UNCHANGED <<clock, serviceVars, screenVars, pc, loc, hAttempts, hNet, hCleared,
                   notifyVars, intervalVars>>

\* AlertManager.ts:274-278
ClearAllAlerts ==
    /\ \A t \in Threads : pc[t] = "idle"
    /\ activeAlerts' = NoAlerts
    /\ previousAlerts' = NoAlerts
    /\ lastAlertTimes' = clearAlertCooldowns(lastAlertTimes)
    /\ hTick' = clearedTick
    /\ hLastDisp' = clearedDispatches
    /\ UNCHANGED <<clock, serviceVars, screenVars, pc, loc, hAttempts, hNet, hCleared,
                   notifyVars, intervalVars>>

ResetInstants == {0, 2500, 5000}

\* inside the zone; approaching it, warm; approaching it, hot, stale
ResetSamples ==
    { Sample(Num(1050), Meridian, Undefined, Fresh),
      Sample(Num(1180), Meridian, Num(3800), Fresh),
      Sample(Num(1180), Meridian, Num(3900), Stale) }

NextReset ==
    \/ \E g \in ResetSamples : Tick(g, NullLoc)
    \/ ResumeProcessAlerts("t1")
    \/ ClearAllAlerts
    \/ Advance(ResetInstants)

SpecReset == Init /\ [][NextReset]_vars

LiveInstants == {0, 2000}
\* calls are made up to this time after the start
LastCallAt == 2000

LiveSamples == {Sample(Num(1050), Meridian, Undefined, Num(StartTime))}

\* the times at which the waits in progress end
pendingDeadlines ==
    {loc[t].now + CoalesceWait : t \in {u \in Threads : pc[u] = "coalesce"}}
    \cup {loc[t].wake : t \in {u \in Threads : pc[u] = "spacing"}}

CallFetchEarly(t, forceRefresh) ==
    /\ clock <= StartTime + LastCallAt
    /\ CallFetch(t, forceRefresh)

\* Time passes, up to an instant or to the end of a wait, and not beyond the
\* end of any wait.
TimePasses ==
    /\ \E c \in {StartTime + i : i \in LiveInstants} \cup pendingDeadlines :
          /\ c > clock
          /\ \A d \in pendingDeadlines : c <= d
          /\ clock' = c
    /\ hAttempts' = <<>>
    /\ UNCHANGED <<serviceVars, alertVars, screenVars, pc, loc, hTick, hLastDisp, hNet>>
    /\ UNCHANGED <<hCleared, notifyVars, intervalVars>>

NetAnswers(t) == NetFail(t) \/ \E d \in LiveSamples : NetSuccess(t, d)

NextFetchLive ==
    \/ \E t \in Threads, f \in BOOLEAN : CallFetchEarly(t, f)
    \/ \E t \in Threads : CoalesceExit(t)
    \/ \E t \in Threads : SpacingDone(t)
    \/ \E t \in Threads : NetAnswers(t)
    \/ ClearCache
    \/ TimePasses

FetchFairness ==
    /\ \A t \in Threads : WF_vars(CoalesceExit(t))
    /\ \A t \in Threads : WF_vars(SpacingDone(t))
    /\ \A t \in Threads : WF_vars(NetAnswers(t))
    /\ WF_vars(TimePasses)

SpecFetchLive == Init /\ [][NextFetchLive]_vars /\ FetchFairness

====
